---- MODULE Spec2Model ----
(***************************************************************************)
(* A model of the pegen parser generator: the grammar analyses of          *)
(* legacy/parser_generator.py (name validation, nullability, left          *)
(* recursion and leaders) and the packrat runtime of parser_v2.py          *)
(* (memoize, memoize_left_rec, logger, lookaheads) over the Tokenizer of   *)
(* tokenizer.py.                                                           *)
(***************************************************************************)
EXTENDS Integers, Sequences, FiniteSets, TLC

VARIABLES
    rules,              \* Grammar.rules: the declared rules, in declaration order
    externs,            \* Grammar.extern_decls: the declared extern names
    extern_decls,       \* the extern_decls argument of Grammar(...): names, in order
    gpc,                \* position of the ParserGenerator constructor
    error,              \* the exception the constructor raised, with its argument
    nullable,           \* names of the rules with rule.nullable = True
    item_nullable,      \* paths of the TopLevelItems with item.nullable = True
    left_recursive,     \* names of the rules with rule.left_recursive = True
    leader,             \* names of the rules with rule.leader = True
    first_graph,        \* ParserGenerator.first_graph
    todo,               \* ParserGenerator.todo: the rules to generate, in insertion order
    counter,            \* ParserGenerator.counter
    source,             \* the tokens tokenize.generate_tokens yields for the input
    _tokengen,          \* Tokenizer._tokengen: the raw tokens not yet generated
    _tokens,            \* Tokenizer._tokens
    _index,             \* Tokenizer._index
    _text,              \* CharBasedParser._text
    _pos,               \* CharBasedParser._pos
    charmode,           \* TRUE: the parser is a CharBasedParser, FALSE: a DefaultParser
    _verbose,           \* BaseParser._verbose
    _level,             \* BaseParser._level
    _cache,             \* BaseParser._cache
    in_recursive_rule,  \* BaseParser.in_recursive_rule
    stack,              \* the call stack of the running parse, innermost frame last
    ret,                \* the value handed back by the call that returned last
    exc,                \* the exception in flight, "" when none
    obs,                \* every return of a wrapped method observed so far
    ncalls,             \* number of driver operations made on the parser
    seen,               \* greatest buffer index peek or getnext returned, -1: none;
                        \* for the character parser the greatest offset an advance reached
    issued,             \* the values mark() has returned so far
    err,                \* the SyntaxError make_syntax_error built last
    _line,              \* CharBasedParser._line (parser_v2_old.py)
    _col,               \* CharBasedParser._col (parser_v2_old.py)
    _farthest,          \* CharBasedParser._farthest (parser_v2_old.py)
    twin                \* the comparison of two parsers: the calls the driver makes
                        \* and what the parser without a verbose stream ended with

gvars == <<rules, externs, gpc, error, nullable, item_nullable, left_recursive,
           leader, first_graph, todo, counter, extern_decls>>
pvars == <<source, _tokengen, _tokens, _index, _text, _pos, charmode, _verbose, _level,
           _cache, in_recursive_rule, stack, ret, exc, obs, ncalls, seen, issued, err,
           _line, _col, _farthest, twin>>
vars == <<gvars, pvars>>

----------------------------------------------------------------------------
(* Grammar trees (grammar.py).  Every item has the same five fields; `node` *)
(* and `sep` hold at most one item, `rhs` is a sequence of alternatives.   *)

NoNode == <<>>

NameLeaf(v) == [t |-> "NameLeaf", v |-> v, node |-> NoNode, sep |-> NoNode, rhs |-> <<>>]
StringLeaf(v) == [t |-> "StringLeaf", v |-> v, node |-> NoNode, sep |-> NoNode, rhs |-> <<>>]
Group(rhs) == [t |-> "Group", v |-> "", node |-> NoNode, sep |-> NoNode, rhs |-> rhs]
Opt(n) == [t |-> "Opt", v |-> "", node |-> <<n>>, sep |-> NoNode, rhs |-> <<>>]
Repeat0(n) == [t |-> "Repeat0", v |-> "", node |-> <<n>>, sep |-> NoNode, rhs |-> <<>>]
Repeat1(n) == [t |-> "Repeat1", v |-> "", node |-> <<n>>, sep |-> NoNode, rhs |-> <<>>]
Gather(s, n) == [t |-> "Gather", v |-> "", node |-> <<n>>, sep |-> <<s>>, rhs |-> <<>>]
PositiveLookahead(n) ==
    [t |-> "PositiveLookahead", v |-> "", node |-> <<n>>, sep |-> NoNode, rhs |-> <<>>]
NegativeLookahead(n) ==
    [t |-> "NegativeLookahead", v |-> "", node |-> <<n>>, sep |-> NoNode, rhs |-> <<>>]
Forced(n) == [t |-> "Forced", v |-> "", node |-> <<n>>, sep |-> NoNode, rhs |-> <<>>]
Cut == [t |-> "Cut", v |-> "", node |-> NoNode, sep |-> NoNode, rhs |-> <<>>]

\* Alt(items, action): the items are TopLevelItems, here the bare items; the
\* TopLevelItem's nullable flag lives in item_nullable under the item's path.
Alt(items, action) == [items |-> items, action |-> action]
Plain(items) == Alt(items, "")
Rule(name, rhs) == [name |-> name, rhs |-> rhs]

RuleNames(rs) == {rs[i].name : i \in 1..Len(rs)}
RuleOf(rs, name) == rs[CHOOSE i \in 1..Len(rs) : rs[i].name = name]

----------------------------------------------------------------------------
(* Name validation: CheckingVisitor and validate_items.                     *)

\* Most artificial rules one generator names.
MaxCounter == 4

\* f"{prefix}{counter}", lines 144, 154, 160 and 162
format(prefix, n) ==
    CASE prefix = "_tmp_" ->
            <<"_tmp_1", "_tmp_2", "_tmp_3", "_tmp_4", "_tmp_5", "_tmp_6">>[n]
      [] prefix = "_loop0_" ->
            <<"_loop0_1", "_loop0_2", "_loop0_3", "_loop0_4", "_loop0_5",
              "_loop0_6">>[n]
      [] prefix = "_loop1_" ->
            <<"_loop1_1", "_loop1_2", "_loop1_3", "_loop1_4", "_loop1_5",
              "_loop1_6">>[n]
      [] prefix = "_gather_" ->
            <<"_gather_1", "_gather_2", "_gather_3", "_gather_4", "_gather_5",
              "_gather_6">>[n]
Prefixes == {"_tmp_", "_loop0_", "_loop1_", "_gather_"}

\* Names the model uses that begin with an underscore.
UnderscoreNames ==
    {"_tmp", "_a"} \cup {format(p, n) : p \in Prefixes, n \in 1..(MaxCounter + 1)}
startswith_underscore(name) == name \in UnderscoreNames

\* The children a node hands to GrammarVisitor.generic_visit (its __iter__).
\* Gather inherits Repeat.__iter__, which yields the node alone.
RECURSIVE Rhs_iter(_)
Item_iter(item) ==
    CASE item.t = "Group" -> Rhs_iter(item.rhs)
      [] item.t \in {"Opt", "Repeat0", "Repeat1", "Gather", "Forced",
                     "PositiveLookahead", "NegativeLookahead"} -> item.node
      [] OTHER -> <<>>

\* Rhs.__iter__ yields the list of alternatives, Alt.__iter__ the list of
\* items; generic_visit flattens both lists: the items of a rhs in order.
Rhs_iter(rhs) ==
    IF rhs = <<>> THEN <<>> ELSE Head(rhs).items \o Rhs_iter(Tail(rhs))

\* The NameLeaf values CheckingVisitor.visit_NameLeaf sees below a node,
\* in visiting order.
RECURSIVE CheckingVisitor_names(_)
CheckingVisitor_names(nodes) ==
    IF nodes = <<>> THEN <<>>
    ELSE LET n == Head(nodes) IN
         (IF n.t = "NameLeaf" THEN <<n.v>> ELSE CheckingVisitor_names(Item_iter(n)))
         \o CheckingVisitor_names(Tail(nodes))

NoError == <<"", "", "">>
ValidationError(msg, name) == <<"ValidationError", msg, name>>
ValueError(msg) == <<"ValueError", msg, "">>

\* CheckingVisitor.visit_NameLeaf over a sequence of names: the first unknown one.
RECURSIVE visit_NameLeaf(_, _, _)
visit_NameLeaf(names, items, extra_names) ==
    IF names = <<>> THEN NoError
    ELSE IF Head(names) \notin items /\ Head(names) \notin extra_names
         THEN ValidationError("Unknown name", Head(names))
         ELSE visit_NameLeaf(Tail(names), items, extra_names)

\* CheckingVisitor.visit_Rule on the rules from index i on, in declaration order.
RECURSIVE CheckingVisitor_visit_Rule(_, _, _, _)
CheckingVisitor_visit_Rule(rs, i, items, extra_names) ==
    IF i > Len(rs) THEN NoError
    ELSE IF startswith_underscore(rs[i].name)
         THEN ValidationError("Rule names cannot start with underscore", rs[i].name)
         ELSE LET e == visit_NameLeaf(CheckingVisitor_names(Rhs_iter(rs[i].rhs)),
                                      items, extra_names)
              IN IF e # NoError THEN e
                 ELSE CheckingVisitor_visit_Rule(rs, i + 1, items, extra_names)

\* CheckingVisitor.visit_ExternDecl over the extern declarations.
visit_ExternDecl(exts) ==
    IF \E x \in exts : startswith_underscore(x)
    THEN ValidationError("Variable names cannot start with underscore",
                         CHOOSE x \in exts : startswith_underscore(x))
    ELSE NoError

\* validate_items(items, tokens): the rules are visited first, then the externs
\* (Grammar.items = rules | extern_decls).
validate_items(rs, exts, tokens) ==
    LET e == CheckingVisitor_visit_Rule(rs, 1, RuleNames(rs) \cup exts, tokens)
    IN IF e # NoError THEN e ELSE visit_ExternDecl(exts)

----------------------------------------------------------------------------
(* Nullability: NullableVisitor and compute_nullables.  The visitor state   *)
(* is threaded through the traversal: the visited rules, the rules marked   *)
(* nullable and the paths of the TopLevelItems marked nullable.             *)

NV(res, st) == [res |-> res, st |-> st]
NV0 == [visited |-> {}, rnull |-> {}, inull |-> {}]

RECURSIVE NullableVisitor_visit_Rule(_, _, _)
RECURSIVE NullableVisitor_visit_Rhs(_, _, _, _, _)
RECURSIVE NullableVisitor_visit_Alt(_, _, _, _, _)
RECURSIVE NullableVisitor_visit(_, _, _, _)

\* visit_TopLevelItem: sets item.nullable when the item's visit is true.
NullableVisitor_visit_TopLevelItem(rs, item, path, st) ==
    LET r == NullableVisitor_visit(rs, item, path, st)
        st2 == IF r.res THEN [r.st EXCEPT !.inull = @ \cup {path}] ELSE r.st
    IN NV(path \in st2.inull, st2)

\* visit_Alt: false at the first item that is not nullable.
NullableVisitor_visit_Alt(rs, alt, path, j, st) ==
    IF j > Len(alt.items) THEN NV(TRUE, st)
    ELSE LET r == NullableVisitor_visit_TopLevelItem(rs, alt.items[j], path \o <<j>>, st)
         IN IF ~r.res THEN NV(FALSE, r.st)
            ELSE NullableVisitor_visit_Alt(rs, alt, path, j + 1, r.st)

\* visit_Rhs: true at the first alternative that is nullable.
NullableVisitor_visit_Rhs(rs, rhs, path, i, st) ==
    IF i > Len(rhs) THEN NV(FALSE, st)
    ELSE LET r == NullableVisitor_visit_Alt(rs, rhs[i], path \o <<i>>, 1, st)
         IN IF r.res THEN NV(TRUE, r.st)
            ELSE NullableVisitor_visit_Rhs(rs, rhs, path, i + 1, r.st)

\* visit_Rule: a rule met again answers False, whatever its flag.
NullableVisitor_visit_Rule(rs, name, st) ==
    IF name \in st.visited THEN NV(FALSE, st)
    ELSE LET st1 == [st EXCEPT !.visited = @ \cup {name}]
             r == NullableVisitor_visit_Rhs(rs, RuleOf(rs, name).rhs, <<name>>, 1, st1)
             st2 == IF r.res THEN [r.st EXCEPT !.rnull = @ \cup {name}] ELSE r.st
         IN NV(name \in st2.rnull, st2)

\* GrammarVisitor.visit dispatches on the class name.  The lookahead classes
\* are PositiveLookahead and NegativeLookahead, so visit_LookAhead is never
\* chosen: generic_visit visits the node and returns None.
NullableVisitor_visit(rs, item, path, st) ==
    CASE item.t \in {"Forced", "Opt", "Repeat0"} -> NV(TRUE, st)
      [] item.t \in {"Repeat1", "Gather", "Cut"} -> NV(FALSE, st)
      [] item.t = "Group" -> NullableVisitor_visit_Rhs(rs, item.rhs, path, 1, st)
      [] item.t = "NameLeaf" ->
            IF item.v \in RuleNames(rs) THEN NullableVisitor_visit_Rule(rs, item.v, st)
            ELSE NV(FALSE, st)
      [] item.t = "StringLeaf" -> NV(item.v = "", st)
      [] item.t \in {"PositiveLookahead", "NegativeLookahead"} ->
            NV(FALSE, NullableVisitor_visit(rs, item.node[1], path, st).st)

\* compute_nullables: one visitor, the rules visited in declaration order.
RECURSIVE compute_nullables_from(_, _, _)
compute_nullables_from(rs, i, st) ==
    IF i > Len(rs) THEN st
    ELSE compute_nullables_from(rs, i + 1, NullableVisitor_visit_Rule(rs, rs[i].name, st).st)

compute_nullables(rs) == compute_nullables_from(rs, 1, NV0)

----------------------------------------------------------------------------
(* The first-invocation graph: initial_names and make_first_graph.          *)

RECURSIVE Rhs_initial_names(_, _, _, _)
RECURSIVE Alt_initial_names(_, _, _, _)
RECURSIVE Item_initial_names(_, _, _)

\* initial_names of NameLeaf, StringLeaf, Forced, Lookahead, Cut, Opt, Repeat
\* (and so Gather) and Group.
Item_initial_names(item, path, inull) ==
    CASE item.t = "NameLeaf" -> {item.v}
      [] item.t \in {"Opt", "Repeat0", "Repeat1", "Gather"} ->
            Item_initial_names(item.node[1], path, inull)
      [] item.t = "Group" -> Rhs_initial_names(item.rhs, path, 1, inull)
      [] OTHER -> {}

\* Alt.initial_names: the names of the items up to and including the first
\* one whose nullable flag is not set.
Alt_initial_names(alt, path, j, inull) ==
    IF j > Len(alt.items) THEN {}
    ELSE Item_initial_names(alt.items[j], path \o <<j>>, inull)
         \cup (IF (path \o <<j>>) \in inull
               THEN Alt_initial_names(alt, path, j + 1, inull) ELSE {})

\* Rhs.initial_names: the union over the alternatives.
Rhs_initial_names(rhs, path, i, inull) ==
    IF i > Len(rhs) THEN {}
    ELSE Alt_initial_names(rhs[i], path \o <<i>>, 1, inull)
         \cup Rhs_initial_names(rhs, path, i + 1, inull)

\* make_first_graph: an entry per rule, and an empty one per other name met.
make_first_graph(rs, inull) ==
    LET names(r) == Rhs_initial_names(r.rhs, <<r.name>>, 1, inull)
        vertices == UNION {names(rs[i]) : i \in 1..Len(rs)}
    IN [v \in RuleNames(rs) \cup vertices |->
            IF v \in RuleNames(rs) THEN names(RuleOf(rs, v)) ELSE {}]

----------------------------------------------------------------------------
(* sccutils: strongly connected components and the cycles of a component.   *)

RECURSIVE ReachableFrom(_, _)
ReachableFrom(graph, S) ==
    LET S2 == S \cup UNION {graph[x] : x \in S}
    IN IF S2 = S THEN S ELSE ReachableFrom(graph, S2)

ComponentOf(graph, a) ==
    {a} \cup {b \in ReachableFrom(graph, graph[a]) : a \in ReachableFrom(graph, graph[b])}

\* The order of names: Python's string order on the names the model uses.
SortedNames == <<"ENDMARKER", "NAME", "NEWLINE", "NUMBER", "_a", "_tmp", "a", "b",
                 "bar", "baz", "c", "expr", "ext", "foo", "maybe", "sign", "start",
                 "target", "term", "zz">>
Rank(name) == CHOOSE i \in 1..Len(SortedNames) : SortedNames[i] = name
min(S) == CHOOSE x \in S : \A y \in S : Rank(x) <= Rank(y)

\* strongly_connected_components: the components in a reverse topological
\* order (a component follows every component it has an edge to).
RECURSIVE strongly_connected_components_from(_, _, _)
strongly_connected_components_from(graph, left, done) ==
    IF left = {} THEN <<>>
    ELSE LET ready == {c \in left : \A x \in c : graph[x] \subseteq (c \cup done)}
             c == CHOOSE r \in ready : \A q \in ready : Rank(min(r)) <= Rank(min(q))
         IN <<c>> \o strongly_connected_components_from(graph, left \ {c}, done \cup c)

strongly_connected_components(vertices, graph) ==
    strongly_connected_components_from(
        graph, {ComponentOf(graph, v) : v \in vertices}, {})

\* find_cycles_in_scc(graph, scc, start): the elementary cycles through
\* start inside the component, each as the set of its rules.
RECURSIVE cycles_dfs(_, _, _, _, _)
cycles_dfs(graph, scc, start, node, path) ==
    UNION {IF child = start THEN {path}
           ELSE IF child \in path THEN {}
           ELSE cycles_dfs(graph, scc, start, child, path \cup {child})
           : child \in graph[node] \cap scc}

find_cycles_in_scc(graph, scc, start) == cycles_dfs(graph, scc, start, start, {start})

----------------------------------------------------------------------------
(* compute_left_recursives.                                                 *)

\* faulty variant: every rule of the component is taken for a candidate
leaders_of_all(graph, scc) == scc

\* The leadership candidates of a component: leaders -= scc - set(cycle) for
\* every cycle from every start.
leaders_of(graph, scc) ==
    {x \in scc : \A start \in scc :
        \A cycle \in find_cycles_in_scc(graph, scc, start) : x \in cycle}

\* faulty variant: the greatest candidate is picked
pick_leader_max(leaders) == CHOOSE x \in leaders : \A y \in leaders : Rank(x) >= Rank(y)

\* The leader picked among the candidates.
pick_leader(leaders) == min(leaders)

\* The loop over the components; a ValueError ends it with the flags set so far.
RECURSIVE compute_left_recursives_from(_, _, _, _)
compute_left_recursives_from(graph, sccs, i, st) ==
    IF i > Len(sccs) THEN st
    ELSE LET scc == sccs[i] IN
         IF Cardinality(scc) > 1
         THEN LET marked == [st EXCEPT !.left_recursive = @ \cup scc]
                  leaders == leaders_of(graph, scc)
              IN IF leaders = {}
                 THEN [marked EXCEPT !.error =
                          ValueError("SCC has no leadership candidate")]
                 ELSE compute_left_recursives_from(graph, sccs, i + 1,
                          [marked EXCEPT !.leader = @ \cup {pick_leader(leaders)}])
         ELSE LET name == min(scc) IN
              IF name \in graph[name]
              THEN compute_left_recursives_from(graph, sccs, i + 1,
                       [st EXCEPT !.left_recursive = @ \cup {name},
                                  !.leader = @ \cup {name}])
              ELSE compute_left_recursives_from(graph, sccs, i + 1, st)

compute_left_recursives(rs, inull) ==
    LET graph == make_first_graph(rs, inull)
        sccs == strongly_connected_components(DOMAIN graph, graph)
    IN [graph |-> graph, sccs |-> sccs,
        flags |-> compute_left_recursives_from(graph, sccs, 1,
                     [left_recursive |-> {}, leader |-> {}, error |-> NoError])]

----------------------------------------------------------------------------
(* The grammars of the tests (tests/v2/test_pegen.py).                      *)

\* The well-known terminals handed to validate_items as `tokens`.
TokenNames == {"NAME", "NUMBER", "STRING", "NEWLINE", "INDENT", "DEDENT",
               "ENDMARKER", "OP"}

N(v) == NameLeaf(v)
S(v) == StringLeaf(v)

\* test_left_recursive
GLeftRecursive ==
    <<Rule("start", <<Plain(<<N("expr"), N("NEWLINE")>>)>>),
      Rule("expr", <<Plain(<<S("'-'"), N("term")>>),
                     Plain(<<N("expr"), S("'+'"), N("term")>>),
                     Plain(<<N("term")>>)>>),
      Rule("term", <<Plain(<<N("NUMBER")>>)>>)>>

\* test_mutually_left_recursive
GMutual ==
    <<Rule("start", <<Plain(<<N("foo"), S("'E'")>>)>>),
      Rule("foo", <<Plain(<<N("bar"), S("'A'")>>), Plain(<<S("'B'")>>)>>),
      Rule("bar", <<Plain(<<N("foo"), S("'C'")>>), Plain(<<S("'D'")>>)>>)>>

\* test_nasty_mutually_left_recursive
GNasty ==
    <<Rule("start", <<Plain(<<N("target"), S("'='")>>)>>),
      Rule("target", <<Plain(<<N("maybe"), S("'+'")>>), Plain(<<N("NAME")>>)>>),
      Rule("maybe", <<Plain(<<N("maybe"), S("'-'")>>), Plain(<<N("target")>>)>>)>>

\* test_left_recursion_too_complex
GTooComplex ==
    <<Rule("start", <<Plain(<<N("foo")>>)>>),
      Rule("foo", <<Plain(<<N("bar"), S("'+'")>>), Plain(<<N("baz"), S("'+'")>>),
                    Plain(<<S("'+'")>>)>>),
      Rule("bar", <<Plain(<<N("baz"), S("'-'")>>), Plain(<<N("foo"), S("'-'")>>),
                    Plain(<<S("'-'")>>)>>),
      Rule("baz", <<Plain(<<N("foo"), S("'*'")>>), Plain(<<N("bar"), S("'*'")>>),
                    Plain(<<S("'*'")>>)>>)>>

\* test_nullable
GNullable ==
    <<Rule("start", <<Plain(<<N("sign"), N("NUMBER")>>)>>),
      Rule("sign", <<Plain(<<Opt(Group(<<Plain(<<S("'-'")>>), Plain(<<S("'+'")>>)>>))>>)>>)>>

\* test_advanced_left_recursive
GAdvanced ==
    <<Rule("start", <<Plain(<<N("NUMBER")>>), Plain(<<N("sign"), N("start")>>)>>),
      Rule("sign", <<Plain(<<Opt(S("'-'"))>>)>>)>>

\* test_dangling_reference
GDangling ==
    <<Rule("start", <<Plain(<<N("foo"), N("ENDMARKER")>>)>>),
      Rule("foo", <<Plain(<<N("bar"), N("NAME")>>)>>)>>

TestGrammars == {GLeftRecursive, GMutual, GNasty, GTooComplex, GNullable, GAdvanced,
                 GDangling}

----------------------------------------------------------------------------
(* The grammars the constructor is run on.                                  *)

\* Most rule references an alternative list may open with (graph family).
MaxRefs == 2
\* Most items in the alternative of `start` (item family).
MaxItems == 2

RECURSIVE SortedSeq(_)
SortedSeq(names) ==
    IF names = {} THEN <<>> ELSE <<min(names)>> \o SortedSeq(names \ {min(names)})

RECURSIVE RefAlts(_)
RefAlts(refs) ==
    IF refs = <<>> THEN <<Plain(<<S("'y'")>>)>>
    ELSE <<Plain(<<N(Head(refs)), S("'x'")>>)>> \o RefAlts(Tail(refs))

GraphNames == {"a", "b", "c"}
RefSets == {R \in SUBSET GraphNames : Cardinality(R) <= MaxRefs}

\* start: a    and, for each of a, b, c, one alternative `r 'x'` per rule r it
\* refers to at its left edge, then the alternative 'y'.
GraphGrammar(ra, rb, rc) ==
    <<Rule("start", <<Plain(<<N("a")>>)>>),
      Rule("a", RefAlts(SortedSeq(ra))),
      Rule("b", RefAlts(SortedSeq(rb))),
      Rule("c", RefAlts(SortedSeq(rc)))>>

GraphGrammars == {GraphGrammar(ra, rb, rc) : ra \in RefSets, rb \in RefSets, rc \in RefSets}

ItemPool ==
    {N("b"), N("NAME"), N("zz"), N("ext"), N("start"), S("'x'"), S(""),
     Opt(N("b")), Opt(N("zz")), Group(<<Plain(<<N("zz")>>)>>),
     Group(<<Plain(<<N("b")>>)>>), Repeat0(N("zz")), Repeat1(N("b")),
     Gather(N("zz"), N("NAME")), Gather(S("','"), N("zz")),
     PositiveLookahead(N("b")), NegativeLookahead(N("zz")), Forced(N("zz")), Cut,
     Opt(Group(<<Plain(<<Opt(S("'x'")), N("start")>>)>>))}

ItemSeqs == UNION {[1..n -> ItemPool] : n \in 1..MaxItems}

BRhs == {<<Plain(<<S("'x'")>>)>>, <<Plain(<<Opt(S("'x'"))>>)>>,
         <<Plain(<<S("'x'")>>), Plain(<<N("b"), N("b")>>)>>}

\* start: <items>    b: <one of BRhs>, declared in either order.
ItemGrammars ==
    {IF startFirst THEN <<Rule("start", <<Plain(items)>>), Rule("b", brhs)>>
     ELSE <<Rule("b", brhs), Rule("start", <<Plain(items)>>)>>
     : items \in ItemSeqs, brhs \in BRhs, startFirst \in BOOLEAN}

Grammars == TestGrammars \cup GraphGrammars \cup ItemGrammars

----------------------------------------------------------------------------
(* The ParserGenerator constructor, one action per call it makes.           *)

\* no SyntaxError built yet.  e is the exception; by, pos and far record
\* who built it, the position the parser was at and the greatest index seen
NoSyntaxError ==
    [e |-> [msg |-> <<>>, lineno |-> 0, offset |-> 0], by |-> "", pos |-> 0,
     far |-> -1]

\* no second parser to compare with
NoTwin == [phase |-> 0, script |-> <<>>, first |-> <<>>]

ParserIdle ==
    /\ twin = NoTwin
    /\ source = <<>> /\ _tokengen = <<>> /\ _tokens = <<>> /\ _index = 0
    /\ _text = <<>> /\ _pos = 0 /\ charmode = FALSE
    /\ _verbose = FALSE /\ _level = 0 /\ _cache = <<>>
    /\ in_recursive_rule = 0
    /\ stack = <<>> /\ ret = <<>> /\ exc = "" /\ obs = {} /\ ncalls = 0
    /\ seen = -1 /\ issued = {} /\ err = NoSyntaxError
    /\ _line = 0 /\ _col = 0 /\ _farthest = <<>>

\* Grammar(rules, extern_decls, metas) handed to ParserGenerator(grammar, tokens).
GInit ==
    /\ rules \in Grammars
    /\ externs \in {{}, {"ext"}}
    /\ gpc = "validate_items"
    /\ error = NoError
    /\ nullable = {} /\ item_nullable = {}
    /\ left_recursive = {} /\ leader = {}
    /\ first_graph = <<>>
    /\ todo = <<>> /\ counter = 0 /\ extern_decls = SortedSeq(externs)
    /\ ParserIdle

\* validate_items(self.grammar.items, self.tokens)
ValidateItems ==
    /\ gpc = "validate_items"
    /\ LET e == validate_items(rules, externs, TokenNames)
       IN /\ error' = e
          /\ gpc' = IF e = NoError THEN "check_start" ELSE "raised"
    /\ UNCHANGED <<rules, externs, nullable, item_nullable, left_recursive, leader,
                   first_graph, todo, counter, extern_decls, pvars>>

\* if "trailer" not in grammar.metas and "start" not in self.rules: raise
CheckStart ==
    /\ gpc = "check_start"
    /\ IF "start" \in RuleNames(rules)
       THEN gpc' = "compute_nullables" /\ error' = error
       ELSE /\ gpc' = "raised"
            /\ error' = ValidationError(
                   "Grammar without a trailer must have a 'start' rule", "")
    /\ UNCHANGED <<rules, externs, nullable, item_nullable, left_recursive, leader,
                   first_graph, todo, counter, extern_decls, pvars>>

\* compute_nullables(self.rules)
ComputeNullables ==
    /\ gpc = "compute_nullables"
    /\ LET st == compute_nullables(rules)
       IN nullable' = st.rnull /\ item_nullable' = st.inull
    /\ gpc' = "compute_left_recursives"
    /\ UNCHANGED <<rules, externs, error, left_recursive, leader, first_graph, todo,
                   counter, extern_decls, pvars>>

\* self.first_graph, self.first_sccs = compute_left_recursives(self.rules),
\* then self.todo = self.rules.copy() and self.counter = 0
ComputeLeftRecursives ==
    /\ gpc = "compute_left_recursives"
    /\ LET r == compute_left_recursives(rules, item_nullable)
       IN /\ left_recursive' = r.flags.left_recursive
          /\ leader' = r.flags.leader
          /\ error' = r.flags.error
          /\ first_graph' = r.graph
          /\ gpc' = IF r.flags.error = NoError THEN "done" ELSE "raised"
          /\ todo' = IF r.flags.error = NoError THEN rules ELSE todo
    /\ UNCHANGED <<rules, externs, nullable, item_nullable, counter, extern_decls,
                   pvars>>

GNext == ValidateItems \/ CheckStart \/ ComputeNullables \/ ComputeLeftRecursives

SpecGrammar == GInit /\ [][GNext]_vars

----------------------------------------------------------------------------
(* Properties of the analyses.                                              *)

NullablesComputed ==
    \/ gpc \in {"compute_left_recursives", "done"}
    \/ gpc = "raised" /\ error[1] = "ValueError"
LeftRecursivesComputed ==
    \/ gpc = "done"
    \/ gpc = "raised" /\ error[1] = "ValueError"

\* The subgraph of graph on the vertices S, and whether it has no cycle.
Restrict(graph, V) == [v \in V |-> graph[v] \cap V]
Acyclic(graph, V) ==
    LET g == Restrict(graph, V)
    IN \A v \in V : v \notin ReachableFrom(g, g[v])
\* x lies on every elementary cycle of the component: without x no cycle is left.
OnEveryCycle(graph, scc, x) == Acyclic(graph, scc \ {x})
Candidates(graph, scc) == {x \in scc : OnEveryCycle(graph, scc, x)}
BigComponents(graph) ==
    {c \in {ComponentOf(graph, v) : v \in DOMAIN graph} : Cardinality(c) > 1}

\* C6: for every component of the first-invocation graph with more than one
\* rule, a leader marked in it lies on every elementary cycle of it, a
\* completed analysis has marked one, and when no rule lies on every cycle
\* the analysis has failed with "SCC has no leadership candidate" and no rule
\* of the component is marked leader.
C6_LeaderOnEveryCycle ==
    LeftRecursivesComputed =>
        \A scc \in BigComponents(first_graph) :
            /\ \A l \in leader \cap scc : OnEveryCycle(first_graph, scc, l)
            /\ gpc = "done" => leader \cap scc # {}
            /\ Candidates(first_graph, scc) = {} =>
                   /\ gpc = "raised"
                   /\ error = ValueError("SCC has no leadership candidate")
                   /\ leader \cap scc = {}

\* C6 witness: the analysis completed on a grammar with a component of which
\* some rule is no leadership candidate.
C6_Witness ==
    /\ gpc = "done"
    /\ \E scc \in BigComponents(first_graph) :
           /\ Candidates(first_graph, scc) # scc
           /\ leader \cap scc # {}

\* C7: after a completed analysis the left-recursive rules are those in a
\* component with more than one rule or with a self-edge, each such
\* component has exactly one leader, the smallest of its leadership
\* candidates in string order, and no other rule is marked.
C7_Marks ==
    gpc = "done" =>
        /\ left_recursive =
               {r \in RuleNames(rules) :
                    \/ Cardinality(ComponentOf(first_graph, r)) > 1
                    \/ r \in first_graph[r]}
        /\ leader \subseteq left_recursive
        /\ \A r \in left_recursive :
               LET scc == ComponentOf(first_graph, r)
                   cands == IF Cardinality(scc) > 1
                            THEN Candidates(first_graph, scc) ELSE scc
               IN /\ Cardinality(leader \cap scc) = 1
                  /\ \A l \in leader \cap scc :
                         l \in cands /\ \A y \in cands : Rank(l) <= Rank(y)

\* C7 witness: a completed analysis with a component that has two leadership
\* candidates or more, and a rule with nothing but a self-edge.
C7_Witness ==
    /\ gpc = "done"
    /\ \E scc \in BigComponents(first_graph) :
           Cardinality(Candidates(first_graph, scc)) > 1

\* Every NameLeaf value below a sequence of nodes, the separator of a Gather
\* included.
RECURSIVE AllNames(_)
AllNames(nodes) ==
    IF nodes = <<>> THEN {}
    ELSE LET n == Head(nodes) IN
         (IF n.t = "NameLeaf" THEN {n.v} ELSE {})
         \cup AllNames(n.node) \cup AllNames(n.sep) \cup AllNames(Rhs_iter(n.rhs))
         \cup AllNames(Tail(nodes))

GrammarNames == UNION {AllNames(Rhs_iter(rules[i].rhs)) : i \in 1..Len(rules)}
KnownNames == RuleNames(rules) \cup externs \cup TokenNames

\* C8 (as claimed): once validate_items has accepted the grammar, every
\* NameLeaf of every rule, wherever it is nested, names a rule, an extern or a
\* well-known terminal; otherwise validation has raised a ValidationError
\* that names an unknown name.
C8_Claim ==
    /\ (gpc # "validate_items" /\ ~(gpc = "raised" /\ error[2] = "Unknown name"))
           => GrammarNames \subseteq KnownNames
    /\ (gpc = "raised" /\ error[2] = "Unknown name")
           => error[3] \in GrammarNames \ KnownNames

RECURSIVE Reverse(_)
Reverse(seq) == IF seq = <<>> THEN <<>> ELSE Reverse(Tail(seq)) \o <<Head(seq)>>

\* Nullability of an item given the set of nullable rules, by the visitor's
\* per-node answers.
RECURSIVE ItemNullableIn(_, _)
AltNullableIn(alt, nrules) ==
    \A j \in 1..Len(alt.items) : ItemNullableIn(alt.items[j], nrules)
ItemNullableIn(item, nrules) ==
    CASE item.t \in {"Forced", "Opt", "Repeat0"} -> TRUE
      [] item.t = "Group" -> \E i \in 1..Len(item.rhs) : AltNullableIn(item.rhs[i], nrules)
      [] item.t = "NameLeaf" -> item.v \in nrules
      [] item.t = "StringLeaf" -> item.v = ""
      [] OTHER -> FALSE

\* The least fixed point of "some alternative has only nullable items".
RECURSIVE NullableFixpoint(_, _)
NullableFixpoint(rs, nrules) ==
    LET next == {rs[k].name : k \in
                    {k \in 1..Len(rs) :
                        \E i \in 1..Len(rs[k].rhs) : AltNullableIn(rs[k].rhs[i], nrules)}}
    IN IF next = nrules THEN nrules ELSE NullableFixpoint(rs, next)

\* C9 (as claimed): after compute_nullables a rule is nullable iff some
\* alternative of it has only nullable items, as the least fixed point, and
\* the rules declared in the opposite order get the same flags.
C9_Claim ==
    NullablesComputed =>
        /\ nullable = NullableFixpoint(rules, {})
        /\ nullable = compute_nullables(Reverse(rules)).rnull

\* The per-node table of nullability, given the extern names and the rules
\* that ended up nullable.
RECURSIVE TableNullable(_, _, _, _)
TableNullable(item, rs, exts, nrules) ==
    CASE item.t \in {"Opt", "Repeat0", "PositiveLookahead", "NegativeLookahead",
                     "Forced", "Cut"} -> TRUE
      [] item.t \in {"Repeat1", "Gather"} -> FALSE
      [] item.t = "StringLeaf" -> item.v = ""
      [] item.t = "NameLeaf" ->
            IF item.v \in exts THEN TRUE
            ELSE IF item.v \in RuleNames(rs) THEN item.v \in nrules
            ELSE FALSE
      [] item.t = "Group" ->
            \E i \in 1..Len(item.rhs) : \A j \in 1..Len(item.rhs[i].items) :
                TableNullable(item.rhs[i].items[j], rs, exts, nrules)

\* The first item of the first alternative of a rule: the visitor visits it
\* whatever the other items are.
FirstItem(rule) == rule.rhs[1].items[1]
FirstItemPath(rule) == <<rule.name, 1, 1>>

\* C21 (as claimed): after compute_nullables the nullable flag of an item the
\* visitor has visited is the answer of the per-node table: Opt, Repeat0, the
\* lookaheads, Forced and Cut are nullable, so is a name of an extern,
\* Repeat1 and Gather are not, a string literal is iff it is empty, and the
\* name of a rule has the rule's flag.
C21_Claim ==
    NullablesComputed =>
        \A k \in 1..Len(rules) :
            (FirstItemPath(rules[k]) \in item_nullable)
                <=> TableNullable(FirstItem(rules[k]), rules, externs, nullable)

\* The names that occur in an item, descending through Group, Opt, Repeat
\* and Gather bodies, at a position where every preceding item of the
\* alternative is nullable by the visitor's per-node answers.
RECURSIVE LeftmostNames(_, _)
AltLeftmostNames(alt, nrules) ==
    UNION {LeftmostNames(alt.items[j], nrules) :
              j \in {j \in 1..Len(alt.items) :
                        \A k \in 1..(j - 1) : ItemNullableIn(alt.items[k], nrules)}}
LeftmostNames(item, nrules) ==
    CASE item.t = "NameLeaf" -> {item.v}
      [] item.t \in {"Opt", "Repeat0", "Repeat1", "Gather"} ->
            LeftmostNames(item.node[1], nrules)
      [] item.t = "Group" ->
            UNION {AltLeftmostNames(item.rhs[i], nrules) : i \in 1..Len(item.rhs)}
      [] OTHER -> {}
RuleLeftmostNames(rule, nrules) ==
    UNION {AltLeftmostNames(rule.rhs[i], nrules) : i \in 1..Len(rule.rhs)}

\* C22 (as claimed): the first-invocation graph has the edge A -> B iff B
\* occurs in some alternative of A, descending through Group, Opt, Repeat and
\* Gather bodies, where every preceding item of that alternative is
\* nullable; a rule that can invoke itself after nullable items only is
\* marked left-recursive.
C22_Claim ==
    LeftRecursivesComputed =>
        \A k \in 1..Len(rules) :
            /\ first_graph[rules[k].name] = RuleLeftmostNames(rules[k], nullable)
            /\ (gpc = "done" /\ rules[k].name \in RuleLeftmostNames(rules[k], nullable))
                   => rules[k].name \in left_recursive

----------------------------------------------------------------------------
(* Runtime values.  Every value is a record of the same five fields: k is  *)
(* the Python type, ty a token's type, n a number, s a string, l a list.   *)
Val(k, ty, n, s, l) == [k |-> k, ty |-> ty, n |-> n, s |-> s, l |-> l]
None == Val("None", "", 0, "", <<>>)
True == Val("bool", "", 1, "", <<>>)
False == Val("bool", "", 0, "", <<>>)
PyBool(b) == IF b THEN True ELSE False
PyInt(n) == Val("int", "", n, "", <<>>)
PyStr(s) == Val("str", "", 0, s, <<>>)
PyList(l) == Val("list", "", 0, "", l)
TokenInfo(ty, string) == Val("TokenInfo", ty, 0, string, <<>>)
\* TokenInfo.start: the tokens of the model lie on line 1 at the column kept
\* in field n, the ENDMARKER at the start of line 2
start(tok) == <<IF tok.ty = "ENDMARKER" THEN 2 ELSE 1, tok.n>>

\* bool(v): None, False, 0, "" and [] are false; a TokenInfo is a non-empty tuple
Truthy(v) ==
    CASE v.k = "None" -> FALSE
      [] v.k = "bool" -> v.n = 1
      [] v.k = "int" -> v.n # 0
      [] v.k = "str" -> v.s # ""
      [] v.k = "list" -> v.l # <<>>
      [] OTHER -> TRUE

----------------------------------------------------------------------------
(* Tokenizer (tokenizer.py).  A tokenizer state is the triple of _tokens,  *)
(* _tokengen and _index; `raised` names the exception a call ends in.      *)

\* faulty variant: only NL and COMMENT are skipped
skips_comments(tok, tokens) == tok.ty \in {"NL", "COMMENT"}
\* Tokenizer.peek, lines 124-133: the tokens peek does not buffer
skips(tok, tokens) ==
    \/ tok.ty \in {"NL", "COMMENT"}
    \/ tok.ty = "ERRORTOKEN" /\ tok.s = " "
    \/ /\ tok.ty = "NEWLINE"
       /\ tokens # <<>>
       /\ tokens[Len(tokens)].ty = "NEWLINE"

\* Tokenizer.peek, lines 121-136: fill _tokens up to _index, skipping NL and
\* COMMENT, blank ERRORTOKENs and a NEWLINE that follows a NEWLINE
RECURSIVE peek_fill(_, _, _)
peek_fill(tokens, tokengen, index) ==
    IF index # Len(tokens)
    THEN [tokens |-> tokens, tokengen |-> tokengen, raised |-> "", at |-> index]
    ELSE IF tokengen = <<>>
    THEN [tokens |-> tokens, tokengen |-> tokengen, raised |-> "StopIteration",
          at |-> -1]
    ELSE LET tok == Head(tokengen)
             skip == skips(tok, tokens)
         IN peek_fill(IF skip THEN tokens ELSE Append(tokens, tok),
                      Tail(tokengen), index)

\* Tokenizer.mark / CharBasedParser.mark
mark == IF charmode THEN _pos ELSE _index

\* faulty variant: reset leaves the position where it is
reset_drops(index, cur) == cur
\* Tokenizer.reset / CharBasedParser.reset: the position after reset(index)
reset(index, cur) == index

\* Tokenizer.reset, lines 175-177: the indices reset takes; any other index
\* fails the assertion
reset_accepts(index, cur, tokens) ==
    index = cur \/ (0 <= index /\ index <= Len(tokens))

\* token.__dict__: the token type names
token_dict == {"NAME", "NUMBER", "STRING", "OP", "NEWLINE", "ENDMARKER", "NL",
               "COMMENT", "ERRORTOKEN", "PLUS", "MINUS", "EQUAL"}

\* exact_token_types: operator spelling to exact token type
exact_token_types == [x \in {"+", "-", "="} |->
    CASE x = "+" -> "PLUS" [] x = "-" -> "MINUS" [] OTHER -> "EQUAL"]

\* DefaultParser.expect, lines 310-313: the test on the peeked token
expect_matches(tok, type) ==
    \/ tok.s = type
    \/ type \in DOMAIN exact_token_types /\ tok.ty = exact_token_types[type]
    \/ type \in token_dict /\ tok.ty = type
    \/ tok.ty = "OP" /\ tok.s = type

----------------------------------------------------------------------------
(* The emitted parser: one method per rule, wrapped by a decorator.         *)

\* faulty variant: the non-leaders are memoized like any other rule
Decorator_memoize(name) ==
    IF name \in leader THEN "memoize_left_rec" ELSE "memoize"
\* The decorator of a rule method: memoize_left_rec for a leader, logger for
\* the other left-recursive rules ("non-memoized ... non-leader
\* left-recursive functions", logger's docstring), memoize for the rest.
Decorator(name) ==
    IF name \in leader THEN "memoize_left_rec"
    ELSE IF name \in left_recursive THEN "logger"
    ELSE "memoize"

\* ast.literal_eval of a StringLeaf's value: the literal without its quotes
literal_eval(v) ==
    CASE v = "'+'" -> "+" [] v = "'-'" -> "-" [] v = "'='" -> "="
      [] v = "'A'" -> "A" [] v = "'B'" -> "B" [] v = "'C'" -> "C"
      [] v = "'D'" -> "D" [] v = "'E'" -> "E"
      [] v = "'a'" -> "a" [] v = "'b'" -> "b" [] v = "'c'" -> "c"
      [] v = "'x'" -> "x" [] v = "'y'" -> "y"
      [] OTHER -> ""

\* The value of an alternative: its action, or the list of the item values.
ActionValue(action, vals) ==
    CASE action = "" -> PyList(vals)
      [] action = "0" -> PyInt(0)
      [] action = "[]" -> PyList(<<>>)
      [] OTHER -> True

\* A stack frame.  fn is the function running, name and arg the method it
\* wraps or calls, pc the place it has reached; the other fields are the
\* locals of the wrappers and of the rule body.  hist lists the (result,
\* end-mark) of every body invocation of a seed-and-grow loop, own tells
\* that the call was made while a loop of the same leader at the same
\* mark was running, before the position the call started at.
Frame(fn, name, arg) ==
    [fn |-> fn, name |-> name, arg |-> arg, pc |-> "enter", mark |-> 0,
     alt |-> 1, item |-> 1, vals |-> <<>>, cut |-> FALSE,
     lastresult |-> None, lastmark |-> 0, depth |-> 0,
     hist |-> <<>>, own |-> FALSE, before |-> 0]

\* self.<name>(<arg>): the wrapper a call of a method enters
MethodFrame(name, arg) ==
    IF name \in {"expect", "match_string"} THEN Frame("memoize", name, arg)
    ELSE Frame(Decorator(name), name, "")

\* the call an atom of a rule body makes: a rule method, or a terminal probe
AtomFrame(atom) ==
    IF atom.t = "NameLeaf"
    THEN IF atom.v \in RuleNames(rules) THEN MethodFrame(atom.v, "")
         ELSE MethodFrame("expect", atom.v)
    ELSE MethodFrame(IF charmode THEN "match_string" ELSE "expect",
                     literal_eval(atom.v))

\* method(self, *args): the wrapped method itself
BodyFrame(name, arg) ==
    IF name \in {"expect", "match_string"} THEN Frame(name, name, arg)
    ELSE Frame("rule", name, "")

Top == stack[Len(stack)]
Pop == SubSeq(stack, 1, Len(stack) - 1)
SetTop(f) == [stack EXCEPT ![Len(stack)] = f]
Key(f) == <<f.mark, f.name, f.arg>>
\* faulty variant: the new entry is all the cache keeps
CacheSet_alone(key, tree, endmark) == [k \in {key} |-> <<tree, endmark>>]
\* self._cache[key] = tree, endmark
CacheSet(key, tree, endmark) ==
    [k \in DOMAIN _cache \cup {key} |->
        IF k = key THEN <<tree, endmark>> ELSE _cache[k]]

----------------------------------------------------------------------------
(* Steps of the runtime.  A step runs the code of the innermost frame from  *)
(* one call boundary to the next: up to the call it makes, or its return.   *)

\* Most operations the driver makes on one parser instance.
MaxCalls == 3

Static ==
    UNCHANGED <<gvars, twin, source, _text, charmode, _verbose, _line, _col, _farthest>>
Fixed == Static /\ UNCHANGED <<issued, err>>
\* the step called self.mark(), which returned m
Marks(m) == Static /\ issued' = issued \cup {m} /\ err' = err
NoTok == UNCHANGED <<_tokens, _tokengen, seen>>
\* no call of peek: the tokenizer as it is
NoPeek == [tokens |-> _tokens, tokengen |-> _tokengen, raised |-> "", at |-> -1]
\* the step called peek, which left the tokenizer as p and returned _tokens[p.at]
Tok(p) ==
    /\ _tokens' = p.tokens /\ _tokengen' = p.tokengen
    /\ seen' = IF p.at > seen THEN p.at ELSE seen

\* self.reset(m)
SetPos(m) ==
    IF charmode THEN _pos' = reset(m, _pos) /\ _index' = _index
    ELSE _index' = reset(m, _index) /\ _pos' = _pos

\* self.showpeek(): DefaultParser peeks at the tokenizer, CharBasedParser's
\* showpeek has an empty body
showpeek ==
    IF charmode THEN NoPeek
    ELSE peek_fill(_tokens, _tokengen, _index)

\* what a verbose wrapper prints before the call: "(looking at {showpeek()})"
looking_at ==
    IF _verbose THEN showpeek
    ELSE NoPeek

\* the record kept of a call that returned: the wrapper, the method and its
\* argument, the mark it started at, its result and the mark it left
Observation(f, res, end, hit, inner, hist) ==
    [fn |-> f.fn, name |-> f.name, arg |-> f.arg, mark |-> f.mark, res |-> res,
     end |-> end, hit |-> hit, own |-> f.own, inner |-> inner, hist |-> hist]

\* the driver calls a rule method of the parser: parser.<r>()
Invoke ==
    /\ stack = <<>> /\ ncalls < MaxCalls
    /\ \E r \in RuleNames(rules) : stack' = <<MethodFrame(r, "")>>
    /\ ncalls' = ncalls + 1
    /\ exc' = ""
    /\ Fixed /\ NoTok
    /\ UNCHANGED <<_index, _pos, _level, _cache, in_recursive_rule, ret, obs>>

\* the driver hands the parser an index: parser.reset(m).  Tokenizer.reset
\* asserts on the index; CharBasedParser.reset, line 358, takes a mark
Reset ==
    /\ stack = <<>> /\ ncalls < MaxCalls
    /\ IF charmode
       THEN \E m \in 0..Len(_text) : SetPos(m) /\ exc' = ""
       ELSE \E m \in -1..(Len(_tokens) + 1) :
               IF reset_accepts(m, _index, _tokens)
               THEN SetPos(m) /\ exc' = ""
               ELSE exc' = "AssertionError" /\ UNCHANGED <<_index, _pos>>
    /\ ncalls' = ncalls + 1
    /\ Fixed /\ NoTok
    /\ UNCHANGED <<_level, _cache, in_recursive_rule, stack, ret, obs>>

\* faulty variant: the start mark is recorded for the end-mark
memoize_entry_startmark(tree, endmark, m) == <<tree, m>>
\* memoize, line 75: the entry recorded after the method returned
memoize_entry(tree, endmark, m) == <<tree, endmark>>

\* memoize_wrapper, lines 55-70: a hit (fast path, or slow path when verbose)
\* resets to the cached end-mark and returns the cached tree; a miss prints
\* when verbose and calls the method
MemoizeEnter ==
    /\ stack # <<>> /\ exc = ""
    /\ Top.fn = "memoize" /\ Top.pc = "enter"
    /\ LET f == [Top EXCEPT !.mark = mark, !.pc = "called"]
           key == Key(f)
       IN IF key \in DOMAIN _cache
          THEN LET tree == _cache[key][1]
                   endmark == _cache[key][2]
               IN /\ SetPos(endmark)
                  /\ stack' = Pop
                  /\ ret' = tree
                  /\ obs' = obs \cup {Observation(f, tree, reset(endmark, mark),
                                                  TRUE, tree, <<>>)}
                  /\ NoTok
                  /\ UNCHANGED <<_level, exc>>
          ELSE LET p == looking_at
               IN /\ Tok(p)
                  /\ IF p.raised # ""
                     THEN exc' = p.raised /\ UNCHANGED <<stack, _level>>
                     ELSE /\ _level' = _level + 1
                          /\ stack' = Append(SetTop(f), BodyFrame(f.name, f.arg))
                          /\ exc' = exc
                  /\ UNCHANGED <<_index, _pos, ret, obs>>
    /\ Marks(mark)
    /\ UNCHANGED <<_cache, in_recursive_rule, ncalls>>

\* memoize_wrapper, lines 71-81: the method returned
MemoizeReturn ==
    /\ stack # <<>> /\ exc = ""
    /\ Top.fn = "memoize" /\ Top.pc = "called"
    /\ LET f == Top
           tree == ret
           endmark == mark
           entry == memoize_entry(tree, endmark, f.mark)
       IN /\ _level' = _level - 1
          /\ _cache' = CacheSet(Key(f), entry[1], entry[2])
          /\ stack' = Pop
          /\ ret' = tree
          /\ obs' = obs \cup {Observation(f, tree, endmark, FALSE, tree, <<>>)}
    /\ Marks(mark) /\ NoTok
    /\ UNCHANGED <<_index, _pos, in_recursive_rule, exc, ncalls>>

\* logger_wrapper, lines 35-41: call the method, after printing when verbose
LoggerEnter ==
    /\ stack # <<>> /\ exc = ""
    /\ Top.fn = "logger" /\ Top.pc = "enter"
    /\ LET f == [Top EXCEPT !.mark = mark, !.pc = "called"]
           p == looking_at
       IN /\ Tok(p)
          /\ IF p.raised # ""
             THEN exc' = p.raised /\ UNCHANGED <<stack, _level>>
             ELSE /\ _level' = IF _verbose THEN _level + 1 ELSE _level
                  /\ stack' = Append(SetTop(f), BodyFrame(f.name, f.arg))
                  /\ exc' = exc
    /\ Fixed
    /\ UNCHANGED <<_index, _pos, _cache, in_recursive_rule, ret, obs, ncalls>>

\* logger_wrapper, lines 36 and 42-44: hand the method's result back
LoggerReturn ==
    /\ stack # <<>> /\ exc = ""
    /\ Top.fn = "logger" /\ Top.pc = "called"
    /\ _level' = IF _verbose THEN _level - 1 ELSE _level
    /\ stack' = Pop
    /\ ret' = ret
    /\ obs' = obs \cup {Observation(Top, ret, mark, FALSE, ret, <<>>)}
    /\ Fixed /\ NoTok
    /\ UNCHANGED <<_index, _pos, _cache, in_recursive_rule, exc, ncalls>>

\* DefaultParser.expect, lines 309-315, with Tokenizer.getnext;
\* CharBasedParser.expect, lines 372-374, has an empty body
Expect ==
    /\ stack # <<>> /\ exc = ""
    /\ Top.fn = "expect"
    /\ LET p == showpeek
       IN /\ Tok(p)
          /\ IF p.raised # ""
             THEN exc' = p.raised /\ UNCHANGED <<stack, ret, _index>>
             ELSE IF charmode
             THEN ret' = None /\ stack' = Pop /\ UNCHANGED <<_index, exc>>
             ELSE LET tok == p.tokens[_index + 1]
                  IN /\ IF expect_matches(tok, Top.arg)
                        THEN ret' = tok /\ _index' = _index + 1
                        ELSE ret' = None /\ _index' = _index
                     /\ stack' = Pop
                     /\ exc' = exc
    /\ Fixed
    /\ UNCHANGED <<_pos, _level, _cache, in_recursive_rule, obs, ncalls>>

\* str.startswith(s, pos) for the literals of the model: one character or none
startswith(text, s, pos) ==
    IF s = "" THEN pos <= Len(text)
    ELSE pos < Len(text) /\ text[pos + 1] = s

\* CharBasedParser.match_string, line 370
MatchString ==
    /\ stack # <<>> /\ exc = ""
    /\ Top.fn = "match_string"
    /\ ret' = IF startswith(_text, Top.arg, _pos) THEN PyStr(Top.arg) ELSE None
    /\ stack' = Pop
    /\ Fixed /\ NoTok
    /\ UNCHANGED <<_index, _pos, _level, _cache, in_recursive_rule, exc, obs, ncalls>>

\* faulty variant: an iteration that ends where the last one did goes on
no_progress_strict(endmark, lastmark) == endmark < lastmark
\* memoize_left_rec, line 139: the body made no progress
no_progress(endmark, lastmark) == endmark <= lastmark

\* faulty variant: the result of the iteration that ended the loop
tree_after_loop_last(lastresult, result) == result
\* memoize_left_rec, line 146: the tree handed back after the loop
tree_after_loop(lastresult, result) == lastresult

\* faulty variant: the loop starts as if the last result ended before the mark
first_lastmark_before(m) == m - 1
\* memoize_left_rec, line 117: lastresult, lastmark = None, mark
first_lastmark(m) == m

\* faulty variant: the cache is not primed
prime_cache_skipped(key, m) == _cache
\* memoize_left_rec, line 116: prime the cache with a failure
prime_cache(key, m) == CacheSet(key, None, m)

\* a loop of the same leader at the same mark is running below the top frame
InOwnLoop(name, m) ==
    \E i \in 1..(Len(stack) - 1) :
        /\ stack[i].fn = "memoize_left_rec" /\ stack[i].name = name
        /\ stack[i].mark = m /\ stack[i].pc = "called"

\* memoize_left_rec_wrapper, lines 92-126 and 158-163: a hit returns the
\* cached tree (the fast path resets to the end-mark, the verbose path only
\* for a true tree); a miss seeds the cache and makes the first call
LeftRecEnter ==
    /\ stack # <<>> /\ exc = ""
    /\ Top.fn = "memoize_left_rec" /\ Top.pc = "enter"
    /\ LET f == [Top EXCEPT !.mark = mark, !.pc = "called",
                            !.lastmark = first_lastmark(mark),
                            !.own = InOwnLoop(Top.name, mark)]
           key == Key(f)
       IN IF key \in DOMAIN _cache
          THEN LET tree == _cache[key][1]
                   endmark == _cache[key][2]
                   end == IF ~_verbose \/ Truthy(tree)
                          THEN reset(endmark, mark) ELSE mark
               IN /\ IF ~_verbose \/ Truthy(tree) THEN SetPos(endmark)
                     ELSE UNCHANGED <<_index, _pos>>
                  /\ stack' = Pop
                  /\ ret' = tree
                  /\ obs' = obs \cup {Observation(f, tree, end, TRUE, tree, <<>>)}
                  /\ NoTok
                  /\ UNCHANGED <<_level, _cache, in_recursive_rule, exc>>
          ELSE LET p == looking_at
               IN /\ Tok(p)
                  /\ IF p.raised # ""
                     THEN /\ exc' = p.raised
                          /\ UNCHANGED <<stack, _level, _cache, in_recursive_rule,
                                         _index, _pos>>
                     ELSE /\ _level' = _level + 1
                          /\ _cache' = prime_cache(key, f.mark)
                          /\ SetPos(f.mark)
                          /\ in_recursive_rule' = in_recursive_rule + 1
                          /\ stack' = Append(SetTop(f), BodyFrame(f.name, ""))
                          /\ exc' = exc
                  /\ UNCHANGED <<ret, obs>>
    /\ Marks(mark)
    /\ UNCHANGED ncalls

\* memoize_left_rec_wrapper, lines 126-156 and 163: the body returned; the
\* loop either ends and the call returns, or records the result and calls
\* the body again from the start mark
LeftRecReturn ==
    /\ stack # <<>> /\ exc = ""
    /\ Top.fn = "memoize_left_rec" /\ Top.pc = "called"
    /\ LET f == Top
           result == ret
           endmark == mark
           hist == Append(f.hist, [res |-> result, end |-> endmark])
       IN IF ~Truthy(result) \/ no_progress(endmark, f.lastmark)
          THEN LET tree == tree_after_loop(f.lastresult, result)
                   end == IF Truthy(tree) THEN reset(f.lastmark, mark)
                          ELSE reset(f.mark, reset(f.lastmark, mark))
               IN /\ IF Truthy(tree) THEN SetPos(f.lastmark) ELSE SetPos(f.mark)
                  /\ in_recursive_rule' = in_recursive_rule - 1
                  /\ _level' = _level - 1
                  /\ _cache' = CacheSet(Key(f), tree, end)
                  /\ stack' = Pop
                  /\ ret' = tree
                  /\ obs' = obs \cup {Observation(f, tree, end, FALSE, tree, hist)}
          ELSE /\ _cache' = CacheSet(Key(f), result, endmark)
               /\ SetPos(f.mark)
               /\ stack' = Append(
                      SetTop([f EXCEPT !.lastresult = result, !.lastmark = endmark,
                                       !.depth = f.depth + 1, !.hist = hist]),
                      BodyFrame(f.name, ""))
               /\ UNCHANGED <<in_recursive_rule, _level, ret, obs>>
    /\ Marks(mark) /\ NoTok
    /\ UNCHANGED <<exc, ncalls>>

----------------------------------------------------------------------------
(* The body of a rule method, as the emitter writes it: the alternatives   *)
(* in order, each item in order, the position reset to the start of the    *)
(* rhs when an alternative fails.                                          *)

CurrentAlt(f) == RuleOf(rules, f.name).rhs[f.alt]
CurrentItem(f) == CurrentAlt(f).items[f.item]

\* the frame an item pushes: the call of its atom, or the lookahead helper
ItemFrame(item) ==
    CASE item.t = "PositiveLookahead" ->
            [AtomFrame(item.node[1]) EXCEPT !.fn = "positive_lookahead"]
      [] item.t = "NegativeLookahead" ->
            [AtomFrame(item.node[1]) EXCEPT !.fn = "negative_lookahead"]
      [] item.t \in {"Opt", "Forced"} -> AtomFrame(item.node[1])
      [] OTHER -> AtomFrame(item)

\* the rule body runs up to its next call, or returns: no alternative left
\* is a failure, no item left is the alternative's value
RuleStep ==
    /\ stack # <<>> /\ exc = ""
    /\ Top.fn = "rule" /\ Top.pc \in {"enter", "next"}
    /\ LET f == IF Top.pc = "enter" THEN [Top EXCEPT !.mark = mark] ELSE Top
       IN IF f.alt > Len(RuleOf(rules, f.name).rhs)
          THEN stack' = Pop /\ ret' = None
          ELSE IF f.item > Len(CurrentAlt(f).items)
          THEN stack' = Pop /\ ret' = ActionValue(CurrentAlt(f).action, f.vals)
          ELSE IF CurrentItem(f).t = "Cut"
          THEN /\ stack' = SetTop([f EXCEPT !.pc = "next", !.cut = TRUE,
                                            !.item = f.item + 1,
                                            !.vals = Append(f.vals, True)])
               /\ ret' = ret
          ELSE /\ stack' = Append(SetTop([f EXCEPT !.pc = "called"]),
                                  ItemFrame(CurrentItem(f)))
               /\ ret' = ret
    /\ IF Top.pc = "enter" THEN Marks(mark) ELSE Fixed
    /\ NoTok
    /\ UNCHANGED <<_index, _pos, _level, _cache, in_recursive_rule, exc, obs, ncalls>>

\* the item's call returned FAILURE or a value; the helper of a negative
\* lookahead answers with a truth value
ItemSucceeds(item, v) ==
    CASE item.t = "Opt" -> TRUE
      [] item.t = "NegativeLookahead" -> Truthy(v)
      [] OTHER -> v # None

\* Tokenizer.diagnose, lines 139-141, called by make_syntax_error
diagnose ==
    IF charmode \/ _tokens # <<>>
    THEN NoPeek
    ELSE peek_fill(_tokens, _tokengen, _index)

\* faulty variant: the token at the current position, when there is one
diagnose_token_current(tokens, index) ==
    IF index < Len(tokens) THEN tokens[index + 1] ELSE tokens[Len(tokens)]
\* Tokenizer.diagnose, line 141: return self._tokens[-1]
diagnose_token(tokens, index) == tokens[Len(tokens)]

\* Leaf.__str__ and NameLeaf.__str__: the source form of a leaf
Leaf_str(node) == IF node.t = "NameLeaf" /\ node.v = "ENDMARKER" THEN "$" ELSE node.v

\* DefaultParser.make_syntax_error, lines 318-319
make_syntax_error(message, tok) ==
    [msg |-> message, lineno |-> start(tok)[1], offset |-> 1 + start(tok)[2]]

\* the position and the tokenizer after make_syntax_error called diagnose,
\* and the exception it returned or ended in
MakeError(message, by) ==
    LET d == diagnose
        index == IF ~charmode /\ _tokens = <<>> /\ d.raised = ""
                 THEN _index + 1 ELSE _index
        built == d.raised = "" /\ ~charmode
    IN /\ Tok(d)
       /\ _index' = index
       /\ exc' = IF d.raised # "" THEN d.raised
                 ELSE IF charmode THEN "AttributeError"
                 ELSE IF by = "force" THEN "SyntaxError" ELSE ""
       /\ err' = IF built
                 THEN [e |-> make_syntax_error(message, diagnose_token(d.tokens, index)),
                       by |-> by, pos |-> index, far |-> seen']
                 ELSE err

\* the driver asks for the error of a parse: parser.make_syntax_error(message)
MakeSyntaxError ==
    /\ stack = <<>> /\ ncalls < MaxCalls
    /\ MakeError(<<"Cannot parse expression">>, "driver")
    /\ ncalls' = ncalls + 1
    /\ Static
    /\ UNCHANGED <<issued, _pos, _level, _cache, in_recursive_rule, stack, ret, obs>>

\* faulty variant: a cut does not commit
commits_never(cut) == FALSE
\* the emitted alternative after a failure: `if cut: return None`
commits(cut) == cut

\* the call an item made has returned: the item succeeds and the
\* alternative goes on, or it fails, the position goes back to the start of
\* the rhs and the next alternative is tried (none after a cut); a Forced
\* item that failed raises: force, lines 244-245
RuleResume ==
    /\ stack # <<>> /\ exc = ""
    /\ Top.fn = "rule" /\ Top.pc = "called"
    /\ LET f == Top
           item == CurrentItem(f)
       IN IF item.t = "Forced" /\ ret = None
          THEN /\ MakeError(<<"expected", Leaf_str(item.node[1])>>, "force")
               /\ UNCHANGED <<stack, ret, _pos>>
          ELSE IF ItemSucceeds(item, ret)
          THEN /\ stack' = SetTop([f EXCEPT !.pc = "next", !.item = f.item + 1,
                                            !.vals = Append(f.vals, ret)])
               /\ NoTok
               /\ UNCHANGED <<_index, _pos, ret, exc, err>>
          ELSE /\ SetPos(f.mark)
               /\ IF commits(f.cut)
                  THEN stack' = Pop /\ ret' = None
                  ELSE /\ stack' = SetTop([f EXCEPT !.pc = "next", !.alt = f.alt + 1,
                                                    !.item = 1, !.vals = <<>>])
                       /\ ret' = ret
               /\ NoTok
               /\ UNCHANGED <<exc, err>>
    /\ Static
    /\ UNCHANGED <<issued, _level, _cache, in_recursive_rule, obs, ncalls>>

\* positive_lookahead / negative_lookahead, lines 250-251 and 257-258
LookaheadEnter ==
    /\ stack # <<>> /\ exc = ""
    /\ Top.fn \in {"positive_lookahead", "negative_lookahead"} /\ Top.pc = "enter"
    /\ stack' = Append(SetTop([Top EXCEPT !.mark = mark, !.pc = "called"]),
                       MethodFrame(Top.name, Top.arg))
    /\ Marks(mark) /\ NoTok
    /\ UNCHANGED <<_index, _pos, _level, _cache, in_recursive_rule, ret, exc, obs,
                   ncalls>>

\* negative_lookahead, line 260: return not ok
negative_result(ok) == PyBool(~Truthy(ok))

\* positive_lookahead / negative_lookahead, lines 252-253 and 259-260
LookaheadReturn ==
    /\ stack # <<>> /\ exc = ""
    /\ Top.fn \in {"positive_lookahead", "negative_lookahead"} /\ Top.pc = "called"
    /\ LET f == Top
           ok == ret
           res == IF f.fn = "positive_lookahead" THEN ok ELSE negative_result(ok)
       IN /\ SetPos(f.mark)
          /\ ret' = res
          /\ stack' = Pop
          /\ obs' = obs \cup {Observation(f, res, reset(f.mark, mark), FALSE, ok, <<>>)}
    /\ Fixed /\ NoTok
    /\ UNCHANGED <<_level, _cache, in_recursive_rule, exc, ncalls>>

\* faulty variant: an exception skips the decrement
finally_count_skipped(n) == n
\* memoize_left_rec, lines 127-128: finally: self.in_recursive_rule -= 1
finally_count(n) == n - 1

\* an exception leaves the innermost frame; the try/finally of
\* memoize_left_rec, lines 125-128, takes the body's count back
Unwind ==
    /\ stack # <<>> /\ exc # ""
    /\ stack' = Pop
    /\ in_recursive_rule' =
          IF Top.fn = "memoize_left_rec" /\ Top.pc = "called"
          THEN finally_count(in_recursive_rule) ELSE in_recursive_rule
    /\ Fixed /\ NoTok
    /\ UNCHANGED <<_index, _pos, _level, _cache, ret, exc, obs, ncalls>>

----------------------------------------------------------------------------
(* The parsers the runtime is run on: a grammar, and the input as          *)
(* tokenize.generate_tokens yields it (or the text, for CharBasedParser).  *)

\* start: a    a: a 'x' | 'y'?        a leader whose body can match nothing
GZeroWidth ==
    <<Rule("start", <<Plain(<<N("a")>>)>>),
      Rule("a", <<Plain(<<N("a"), S("'x'")>>), Plain(<<Opt(S("'y'"))>>)>>)>>

\* start: a    a: a term | term    term: NAME | NEWLINE | ENDMARKER
GAnyToken ==
    <<Rule("start", <<Plain(<<N("a")>>)>>),
      Rule("a", <<Plain(<<N("a"), N("term")>>), Plain(<<N("term")>>)>>),
      Rule("term", <<Plain(<<N("NAME")>>), Plain(<<N("NEWLINE")>>),
                     Plain(<<N("ENDMARKER")>>)>>)>>

\* start: !b NAME | &b b    b: NAME { 0 } | NUMBER
GLookahead ==
    <<Rule("start", <<Plain(<<NegativeLookahead(N("b")), N("NAME")>>),
                      Plain(<<PositiveLookahead(N("b")), N("b")>>)>>),
      Rule("b", <<Alt(<<N("NAME")>>, "0"), Plain(<<N("NUMBER")>>)>>)>>

\* start: a NEWLINE    a: a '+' &&NUMBER | NUMBER
GForced ==
    <<Rule("start", <<Plain(<<N("a"), N("NEWLINE")>>)>>),
      Rule("a", <<Plain(<<N("a"), S("'+'"), Forced(N("NUMBER"))>>),
                  Plain(<<N("NUMBER")>>)>>)>>

\* start: '-' ~ NUMBER | '-' NAME
GCut ==
    <<Rule("start", <<Plain(<<S("'-'"), Cut, N("NUMBER")>>),
                      Plain(<<S("'-'"), N("NAME")>>)>>)>>

\* start: a 'c'    a: a 'b' | 'a' 'a'      with @base CharBasedParser
GChar ==
    <<Rule("start", <<Plain(<<N("a"), S("'c'")>>)>>),
      Rule("a", <<Plain(<<N("a"), S("'b'")>>), Plain(<<S("'a'"), S("'a'")>>)>>)>>

\* start: NUMBER '+' NUMBER NEWLINE $
GGuide ==
    <<Rule("start", <<Plain(<<N("NUMBER"), S("'+'"), N("NUMBER"), N("NEWLINE"),
                              N("ENDMARKER")>>)>>)>>

\* start: NAME '+' NUMBER | NAME &&'='
GForcedLate ==
    <<Rule("start", <<Plain(<<N("NAME"), S("'+'"), N("NUMBER")>>),
                      Plain(<<N("NAME"), Forced(S("'='"))>>)>>)>>

\* start: a    a: a 'x' | NAME { [] }     a leader that succeeds with an empty list
GEmptyList ==
    <<Rule("start", <<Plain(<<N("a")>>)>>),
      Rule("a", <<Plain(<<N("a"), S("'x'")>>), Alt(<<N("NAME")>>, "[]")>>)>>

\* start: a    a: a 'x' | b    b: b 'y' | NUMBER     a leader inside a leader
GNested ==
    <<Rule("start", <<Plain(<<N("a")>>)>>),
      Rule("a", <<Plain(<<N("a"), S("'x'")>>), Plain(<<N("b")>>)>>),
      Rule("b", <<Plain(<<N("b"), S("'y'")>>), Plain(<<N("NUMBER")>>)>>)>>

NAME(s) == TokenInfo("NAME", s)
NUMBER(s) == TokenInfo("NUMBER", s)
OP(s) == TokenInfo("OP", s)
EndOfLine == <<TokenInfo("NEWLINE", ""), TokenInfo("ENDMARKER", "")>>

\* the tokens of a line whose lexemes are one character wide, one blank apart
Layout(toks) ==
    [i \in 1..Len(toks) |->
        IF toks[i].ty = "ENDMARKER" THEN toks[i]
        ELSE [toks[i] EXCEPT !.n = 2 * (i - 1)]]
TokenConfig(grammar, line) ==
    [grammar |-> grammar, source |-> Layout(line \o EndOfLine), text |-> <<>>,
     charmode |-> FALSE]
CharConfig(grammar, text) ==
    [grammar |-> grammar, source |-> <<>>, text |-> text, charmode |-> TRUE]

Configs ==
    {TokenConfig(GLeftRecursive,
                 <<NUMBER("1"), OP("+"), NUMBER("2"), TokenInfo("COMMENT", "# c")>>),
     TokenConfig(GMutual, <<NAME("D"), NAME("A"), NAME("C"), NAME("A"), NAME("E")>>),
     TokenConfig(GNasty, <<NAME("x"), OP("-"), OP("+"), OP("=")>>),
     TokenConfig(GZeroWidth, <<NAME("y"), NAME("x")>>),
     TokenConfig(GZeroWidth, <<NAME("z")>>),
     TokenConfig(GAnyToken, <<NAME("x")>>),
     TokenConfig(GAnyToken,
                 <<NAME("x"), TokenInfo("NEWLINE", ""), TokenInfo("COMMENT", "# c"),
                   TokenInfo("NEWLINE", ""), TokenInfo("NL", ""),
                   TokenInfo("ERRORTOKEN", " "), NAME("y")>>),
     TokenConfig(GLookahead, <<NAME("x")>>),
     TokenConfig(GLookahead, <<NUMBER("1")>>),
     TokenConfig(GLookahead, <<OP("+")>>),
     TokenConfig(GForced, <<NUMBER("1"), OP("+"), NAME("x")>>),
     TokenConfig(GForced, <<NUMBER("1"), OP("+"), NUMBER("2")>>),
     TokenConfig(GCut, <<OP("-"), NAME("x")>>),
     TokenConfig(GGuide, <<NUMBER("1"), OP("+"), NAME("a")>>),
     TokenConfig(GForcedLate, <<NAME("x"), OP("+"), NAME("y")>>),
     TokenConfig(GEmptyList, <<NAME("y"), NAME("x")>>),
     TokenConfig(GNested, <<NUMBER("1"), NAME("y")>>),
     CharConfig(GChar, <<"a", "b">>)}

\* GeneratedParser(Tokenizer(tokengen), verbose_stream=...) for a grammar the
\* ParserGenerator constructor has analysed
Init ==
    /\ \E c \in Configs :
          /\ rules = c.grammar
          /\ source = c.source /\ _tokengen = c.source
          /\ _text = c.text /\ charmode = c.charmode
    /\ externs = {} /\ gpc = "done" /\ error = NoError
    /\ todo = rules /\ counter = 0 /\ extern_decls = SortedSeq(externs)
    /\ nullable = compute_nullables(rules).rnull
    /\ item_nullable = compute_nullables(rules).inull
    /\ first_graph = compute_left_recursives(rules, item_nullable).graph
    /\ left_recursive = compute_left_recursives(rules, item_nullable).flags.left_recursive
    /\ leader = compute_left_recursives(rules, item_nullable).flags.leader
    /\ _tokens = <<>> /\ _index = 0 /\ _pos = 0
    /\ _verbose \in BOOLEAN
    /\ _level = 0 /\ _cache = <<>> /\ in_recursive_rule = 0
    /\ stack = <<>> /\ ret = None /\ exc = "" /\ obs = {} /\ ncalls = 0
    /\ seen = -1 /\ issued = {} /\ err = NoSyntaxError
    /\ _line = 0 /\ _col = 0 /\ _farthest = <<>>
    /\ twin = NoTwin

Next ==
    \/ Invoke \/ Reset \/ MakeSyntaxError
    \/ MemoizeEnter \/ MemoizeReturn
    \/ LeftRecEnter \/ LeftRecReturn
    \/ LoggerEnter \/ LoggerReturn
    \/ Expect \/ MatchString
    \/ RuleStep \/ RuleResume
    \/ LookaheadEnter \/ LookaheadReturn
    \/ Unwind

Spec == Init /\ [][Next]_vars

TypeOK ==
    /\ _index \in 0..Len(_tokens) /\ _pos \in 0..Len(_text)
    /\ exc \in {"", "StopIteration", "SyntaxError", "AttributeError", "AssertionError"}

----------------------------------------------------------------------------
(* Properties of the runtime.                                               *)

InputLength == IF charmode THEN Len(_text) ELSE Len(source)
SameCall(o1, o2) == o1.name = o2.name /\ o1.arg = o2.arg /\ o1.mark = o2.mark
SameOutcome(o1, o2) == o1.res = o2.res /\ o1.end = o2.end
NonLeaders == left_recursive \ leader

\* C1: a memoized rule method, a terminal probe (expect, match_string) or a
\* leader's seed-and-grow call that returns failure leaves the position at
\* the mark it was invoked at, on a cache miss and on a cache hit.
C1_FailureKeepsPosition ==
    \A o \in obs :
        o.fn \in {"memoize", "memoize_left_rec"} /\ o.res = None => o.end = o.mark

\* a probe and a rule method failed on a miss after the rule had consumed
\* input, a rule method failed on a hit, and a leader's call failed
C1_Witness ==
    /\ \E o \in obs : o.fn = "memoize" /\ o.name = "expect" /\ o.res = None /\ ~o.hit
    /\ \E o \in obs : /\ o.fn = "memoize" /\ o.name \in RuleNames(rules)
                      /\ o.res = None /\ ~o.hit /\ Len(_tokens) > o.mark + 1
    /\ \E o \in obs : o.fn = "memoize" /\ o.res = None /\ o.hit
    /\ \E o \in obs : o.fn = "memoize_left_rec" /\ o.res = None /\ ~o.hit

Invocations(f) == Len(f.hist) + (IF f.pc = "called" THEN 1 ELSE 0)

\* C3: a leader's seed-and-grow loop makes at most 1 + n body invocations
\* on an input of n tokens (or characters).
C3_LoopBound ==
    /\ \A i \in 1..Len(stack) :
          stack[i].fn = "memoize_left_rec" => Invocations(stack[i]) <= 1 + InputLength
    /\ \A o \in obs : Len(o.hist) <= 1 + InputLength

\* a loop is making its (1 + n)th body invocation
C3_Witness ==
    \E i \in 1..Len(stack) :
        stack[i].fn = "memoize_left_rec" /\ Invocations(stack[i]) = 1 + InputLength

\* the cache entry of the call observed
Cached(o) == _cache[<<o.mark, o.name, o.arg>>]

\* the body results of a leader's call that count, and the one of them with
\* the greatest end-mark (the earliest, should two share it)
Greatest(hist, among) ==
    CHOOSE i \in among :
        /\ \A j \in among : hist[j].end <= hist[i].end
        /\ \A j \in among : hist[j].end = hist[i].end => i <= j

ReturnsBest(o, among) ==
    IF among # {}
    THEN LET best == o.hist[Greatest(o.hist, among)]
         IN o.res = best.res /\ o.end = best.end /\ Cached(o) = <<best.res, best.end>>
    ELSE o.res = None /\ o.end = o.mark /\ Cached(o) = <<None, o.mark>>

GrowsToFullMatch ==
    \A o \in obs :
        rules = GMutual /\ o.name = "start" /\ o.mark = 0 =>
            o.res # None /\ o.end = 5

\* C5 as claimed: a non-leader member of a left-recursive SCC is memoized:
\* the (result, end-mark) of its first invocation at a mark is cached and
\* every later invocation at that mark hands the same back, and the parse
\* of a mutually left-recursive grammar grows to the full match.
C5_Claim ==
    /\ \A o \in obs :
          o.name \in NonLeaders =>
              /\ <<o.mark, o.name, o.arg>> \in DOMAIN _cache
              /\ \A o2 \in obs : SameCall(o, o2) => SameOutcome(o, o2)
    /\ GrowsToFullMatch

\* C5, amended: a non-leader member of a left-recursive SCC is not memoized:
\* its method is wrapped by logger, no cache entry is ever kept for it and
\* every invocation runs its body again; the parse of a mutually
\* left-recursive grammar grows to the full match.
C5_NonLeadersRunAgain ==
    /\ \A k \in DOMAIN _cache : k[2] \notin NonLeaders
    /\ \A o \in obs : o.name \in NonLeaders => o.fn = "logger" /\ ~o.hit
    /\ GrowsToFullMatch

\* the parse of "D A C A E" has returned its full match, and the non-leader
\* foo handed back different results at mark 0 in different iterations of
\* the loop of the leader bar
C5_Witness ==
    /\ rules = GMutual
    /\ \E o \in obs : o.name = "start" /\ o.mark = 0 /\ o.end = 5
    /\ \E o1, o2 \in obs :
          /\ o1.name = "foo" /\ o1.fn = "logger" /\ SameCall(o1, o2)
          /\ o1.res = None /\ o2.res # None

\* C10 as claimed: positive_lookahead(f) succeeds iff f succeeds,
\* negative_lookahead(f) succeeds iff f fails (returns FAILURE), and either
\* leaves the position where it was before the call.
C10_Claim ==
    \A o \in obs :
        /\ o.fn = "positive_lookahead" =>
              (o.res # None <=> o.inner # None) /\ o.end = o.mark
        /\ o.fn = "negative_lookahead" =>
              (Truthy(o.res) <=> o.inner = None) /\ o.end = o.mark

\* C23 (as claimed): success is told from FAILURE by identity: a body
\* result other than FAILURE that consumed input, be it 0, an empty list or
\* an empty string, never ends a leader's seed-and-grow call as a failure,
\* a cached result other than FAILURE is replayed with its end-mark, and a
\* negative lookahead succeeds only when its function returned FAILURE.
C23_Claim ==
    \A o \in obs :
        /\ (o.fn = "memoize_left_rec" /\ ~o.hit) =>
              \A i \in 1..Len(o.hist) :
                  (o.hist[i].res # None /\ o.hist[i].end > o.mark) => o.res # None
        /\ (o.fn = "memoize" /\ o.hit) =>
              o.res = Cached(o)[1] /\ o.end = Cached(o)[2]
        /\ o.fn = "negative_lookahead" => (Truthy(o.res) <=> o.inner = None)

\* the seed-and-grow loops running for a leader at a mark, in a call stack
LoopsIn(stk, name, m) ==
    {i \in 1..Len(stk) : /\ stk[i].fn = "memoize_left_rec" /\ stk[i].name = name
                         /\ stk[i].mark = m /\ stk[i].pc = "called"}
LoopsRunning(name, m) == LoopsIn(stack, name, m)

\* a leader is invoked at the mark at which a loop of it is running
NestedLeaderCall ==
    /\ stack # <<>> /\ exc = ""
    /\ Top.fn = "memoize_left_rec" /\ Top.pc = "enter"
    /\ InOwnLoop(Top.name, mark)

\* C24: while a leader's seed-and-grow loop started at mark M is running, an
\* invocation of that leader at M returns the cached result and end-mark,
\* failure at M during the first iteration, and starts no loop; at most one
\* loop is ever running for a leader and a mark.
C24_OneLoop ==
    [][/\ NestedLeaderCall =>
             LET key == <<mark, Top.name, Top.arg>> IN
             /\ key \in DOMAIN _cache
             /\ stack' = Pop
             /\ ret' = _cache[key][1] /\ mark' = _cache[key][2]
             /\ _cache' = _cache /\ in_recursive_rule' = in_recursive_rule
             /\ (\E i \in LoopsRunning(Top.name, mark) : stack[i].depth = 0)
                    => ret' = None /\ mark' = mark
       /\ \A i \in 1..Len(stack') :
             (stack'[i].fn = "memoize_left_rec" /\ stack'[i].pc = "called")
                 => Cardinality(LoopsIn(stack', stack'[i].name, stack'[i].mark)) = 1]_vars

\* test_nasty_mutually_left_recursive: the leader was invoked at mark 0
\* inside its own loop and got failure in the first iteration and a grown
\* result with a greater end-mark in a later one
C24_Witness ==
    /\ rules = GNasty
    /\ \E o1, o2 \in obs :
          /\ o1.fn = "memoize_left_rec" /\ o1.own /\ o1.hit
          /\ o1.res = None /\ o1.end = o1.mark
          /\ o2.fn = "memoize_left_rec" /\ o2.own /\ o2.hit /\ SameCall(o1, o2)
          /\ o2.res # None /\ o2.end > o2.mark

\* C27: a leader's seed-and-grow call never returns a success whose
\* end-mark equals its start mark; when the first body invocation succeeds
\* without consuming input the call returns failure, leaves the position at
\* the start mark and caches (failure, start mark).
C27_NoEmptySuccess ==
    \A o \in obs :
        o.fn = "memoize_left_rec" =>
            /\ o.res # None => o.end > o.mark
            /\ (~o.hit /\ o.hist[1].res # None /\ o.hist[1].end = o.mark) =>
                  /\ o.res = None /\ o.end = o.mark
                  /\ Len(o.hist) = 1
                  /\ Cached(o) = <<None, o.mark>>

\* the body of a leader matched nothing at all in its first invocation and
\* the call returned failure at its start mark
C27_Witness ==
    /\ \E o \in obs :
          /\ o.fn = "memoize_left_rec" /\ ~o.hit /\ o.res = None
          /\ o.hist[1].res # None /\ o.hist[1].end = o.mark
    /\ rules = GZeroWidth /\ _index = 0 /\ stack = <<>>

LeaderBodies ==
    {i \in 1..Len(stack) : stack[i].fn = "memoize_left_rec" /\ stack[i].pc = "called"}

\* C29: in_recursive_rule is never negative and equals the number of leader
\* rule bodies executing, so it is back at its value of before the call
\* when a leader's call has returned or raised, and 0 when no rule executes.
C29_Depth ==
    /\ in_recursive_rule >= 0
    /\ in_recursive_rule = Cardinality(LeaderBodies)
    /\ stack = <<>> => in_recursive_rule = 0

\* test_forced: the Forced item in the body of the leader a raised a
\* SyntaxError, which has left every frame
C29_Witness ==
    /\ rules = GForced /\ exc = "SyntaxError" /\ err.by = "force"
    /\ stack = <<>> /\ in_recursive_rule = 0
    /\ <<0, "a", "">> \in DOMAIN _cache

----------------------------------------------------------------------------
(* Errors, cuts and the tokenizer's marks.                                  *)

\* C11: a Forced item whose body fails raises a syntax error at once; the
\* message is "expected" followed by the source form of the item, and the
\* line and column are those of the parser's current position at the
\* forced item, whatever farther token was observed before.
C11_Claim ==
    err.by = "force" =>
        /\ err.e.msg[1] = "expected"
        /\ err.pos < Len(_tokens)
        /\ err.e.lineno = start(_tokens[err.pos + 1])[1]
        /\ err.e.offset = 1 + start(_tokens[err.pos + 1])[2]

\* the rule body on top of the stack saw its item fail (not a Forced one)
ItemFailed ==
    /\ stack # <<>> /\ exc = ""
    /\ Top.fn = "rule" /\ Top.pc = "called"
    /\ ~(CurrentItem(Top).t = "Forced" /\ ret = None)
    /\ ~ItemSucceeds(CurrentItem(Top), ret)

\* the alternative a rule body is in holds a Cut before the current item
PassedCut(f) ==
    /\ f.alt <= Len(RuleOf(rules, f.name).rhs)
    /\ \E i \in 1..(f.item - 1) :
          i <= Len(CurrentAlt(f).items) /\ CurrentAlt(f).items[i].t = "Cut"

\* C12: once an alternative has passed a Cut, a later failure in it makes
\* the whole Rhs fail at its start position and no later alternative is
\* tried; a failure before the cut falls through to the next alternative.
C12_CutCommits ==
    [][ItemFailed =>
          /\ _index' = (IF charmode THEN _index ELSE Top.mark)
          /\ _pos' = (IF charmode THEN Top.mark ELSE _pos)
          /\ IF PassedCut(Top)
             THEN stack' = Pop /\ ret' = None
             ELSE /\ Len(stack') = Len(stack)
                  /\ stack'[Len(stack)].alt = Top.alt + 1
                  /\ stack'[Len(stack)].item = 1]_vars

\* test_cut_early_exit: on "- x" the first alternative of
\* start: '-' ~ NUMBER | '-' NAME  fails after its cut; start returned
\* failure at mark 0 and NAME was never tried, although it would match
C12_Witness ==
    /\ rules = GCut
    /\ \E o \in obs : o.name = "start" /\ o.mark = 0 /\ o.res = None /\ o.end = 0
    /\ <<1, "expect", "NUMBER">> \in DOMAIN _cache
    /\ <<1, "expect", "NAME">> \notin DOMAIN _cache
    /\ expect_matches(source[2], "NAME")

\* C13: in token mode diagnose() returns the token with the greatest
\* buffer index peek or getnext ever returned, whatever resets were made,
\* and a syntax error built by make_syntax_error carries that token's line
\* and, as its column, 1 + that token's start column.
C13_Farthest ==
    /\ (~charmode /\ _tokens # <<>>) =>
          /\ seen + 1 = Len(_tokens)
          /\ diagnose_token(_tokens, _index) = _tokens[seen + 1]
    /\ err.by # "" =>
          /\ err.far >= 0 /\ err.far < Len(_tokens)
          /\ err.e.lineno = start(_tokens[err.far + 1])[1]
          /\ err.e.offset = 1 + start(_tokens[err.far + 1])[2]

\* test_beginning: start() failed on "1 + a" and left the parser at mark 0;
\* the error the driver then builds points at `a`, line 1, offset 5
C13_Witness ==
    /\ rules = GGuide
    /\ \E o \in obs : o.name = "start" /\ o.mark = 0 /\ o.res = None
    /\ err.by = "driver" /\ err.pos = 0 /\ err.far = 2
    /\ err.e.lineno = 1 /\ err.e.offset = 5

\* C14: Tokenizer.reset(m) succeeds only when mark() has returned m before
\* on this tokenizer; for any other m it fails and the position is kept.
C14_Claim ==
    [][(~charmode /\ Reset) =>
          IF exc' = "" THEN _index' \in issued ELSE _index' = _index]_vars

----------------------------------------------------------------------------
(* The character-stream parser of parser_v2_old.py: CharBasedParser with   *)
(* its Mark triple, any_char, match_string and the farthest mark.  A text  *)
(* is a sequence of characters, a literal a sequence of characters too.    *)

\* Longest text, and longest literal handed to match_string.
MaxText == 2
MaxLiteral == 2
\* Most operations the driver makes on one character parser.
MaxCharOps == 3

Chars == {"a", "\n", "\r"}
SeqsUpTo(n) == UNION {[1..k -> Chars] : k \in 0..n}
Texts == SeqsUpTo(MaxText)
Literals == SeqsUpTo(MaxLiteral) \ {<<>>}

\* class Mark(NamedTuple), lines 657-660: the fields line, col, pos in order
Mark(line, col, pos) == [line |-> line, col |-> col, pos |-> pos]
\* Mark.__gt__, line 664: self[2] > other[2]
Mark_gt(a, b) == a.pos > b.pos
\* Mark.__lt__, line 662: self[2] < other[2]
Mark_lt(a, b) == a.pos < b.pos

\* CharBasedParser.mark, line 685: the fields are passed in the order
\* _pos, _line, _col
CharBasedParser_mark(pos, line, col) == Mark(pos, line, col)
\* CharBasedParser.reset, line 688: self._pos, self._line, self._col = mark
CharBasedParser_reset(m) == [pos |-> m.line, line |-> m.col, col |-> m.pos]

\* max(a, b) of Python: the first of the greatest
max(a, b) == IF Mark_gt(b, a) THEN b ELSE a
\* _update_farthest, line 727
_update_farthest(m, farthest) == max(m, farthest)

\* _count_nlines_and_last_col, lines 623-641, from index i on
RECURSIVE count_from(_, _, _, _)
count_from(str, i, nlines, last_line_start) ==
    IF i >= Len(str)
    THEN IF nlines = 0 THEN <<0, 0>> ELSE <<nlines, Len(str) - last_line_start>>
    ELSE IF str[i + 1] = "\n"
    THEN count_from(str, i + 1, nlines + 1, i + 1)
    ELSE IF str[i + 1] = "\r"
    THEN LET j == IF i + 1 < Len(str) /\ str[i + 2] = "\n" THEN i + 2 ELSE i + 1
         IN count_from(str, j, nlines + 1, j)
    ELSE count_from(str, i + 1, nlines, last_line_start)
_count_nlines_and_last_col(str) == count_from(str, 0, 0, 0)

\* str.startswith(s, pos) for sequences of characters
str_startswith(text, str, pos) ==
    /\ pos + Len(str) <= Len(text)
    /\ SubSeq(text, pos + 1, pos + Len(str)) = str

\* a str value whose characters are kept as a sequence
Str(chars) == [k |-> "str", ty |-> "", n |-> 0, s |-> "", l |-> chars]

\* the variables of the grammar analysis and of the token parser stay idle
CFixed ==
    UNCHANGED <<gvars, twin, source, _tokengen, _tokens, _index, charmode, _verbose, _level,
                in_recursive_rule, stack, exc, obs, err, _text>>

\* the position after an advance, and the farthest mark brought up to date
Advance(pos, line, col) ==
    /\ _pos' = pos /\ _line' = line /\ _col' = col
    /\ _farthest' = _update_farthest(CharBasedParser_mark(pos, line, col), _farthest)
    /\ seen' = IF pos > seen THEN pos ELSE seen

\* CharBasedParser.__init__, lines 677-682, on a text
CInit ==
    /\ rules = <<>> /\ externs = {} /\ gpc = "done" /\ error = NoError
    /\ nullable = {} /\ item_nullable = {}
    /\ left_recursive = {} /\ leader = {} /\ first_graph = <<>>
    /\ todo = <<>> /\ counter = 0 /\ extern_decls = SortedSeq(externs)
    /\ source = <<>> /\ _tokengen = <<>> /\ _tokens = <<>> /\ _index = 0
    /\ charmode = TRUE /\ _verbose = FALSE /\ _level = 0 /\ _cache = <<>>
    /\ in_recursive_rule = 0
    /\ stack = <<>> /\ ret = None /\ exc = "" /\ obs = {} /\ ncalls = 0
    /\ err = NoSyntaxError
    /\ _text \in Texts
    /\ _pos = 0 /\ _line = 0 /\ _col = 0
    /\ _farthest = CharBasedParser_mark(0, 0, 0)
    /\ seen = 0 /\ issued = {}
    /\ twin = NoTwin

\* CharBasedParser.any_char, lines 703-714
any_char ==
    /\ ncalls < MaxCharOps
    /\ IF _pos = Len(_text)
       THEN ret' = None /\ UNCHANGED <<_pos, _line, _col, _farthest, seen>>
       ELSE /\ IF _text[_pos + 1] = "\n"
               THEN Advance(_pos + 1, _line + 1, 0)
               ELSE Advance(_pos + 1, _line, _col + 1)
            /\ ret' = Str(<<_text[_pos + 1]>>)
    /\ ncalls' = ncalls + 1
    /\ CFixed /\ UNCHANGED <<_cache, issued>>

\* CharBasedParser.match_string, lines 716-725, under memoize, lines 227-254:
\* a hit resets to the cached end-mark, a miss runs the method and records
\* its result with the mark it ends at
match_string ==
    /\ ncalls < MaxCharOps
    /\ \E str \in Literals :
          LET m == CharBasedParser_mark(_pos, _line, _col)
              key == <<m, "match_string", str>>
          IN IF key \in DOMAIN _cache
             THEN LET to == CharBasedParser_reset(_cache[key][2])
                  IN /\ _pos' = to.pos /\ _line' = to.line /\ _col' = to.col
                     /\ ret' = _cache[key][1]
                     /\ UNCHANGED <<_cache, _farthest, seen>>
             ELSE IF ~str_startswith(_text, str, _pos)
             THEN /\ ret' = None
                  /\ _cache' = CacheSet(key, None, m)
                  /\ UNCHANGED <<_pos, _line, _col, _farthest, seen>>
             ELSE LET c == _count_nlines_and_last_col(str)
                      nlines == c[1]
                      last_col == c[2]
                      pos == _pos + Len(str)
                      line == _line + nlines
                      col == IF nlines # 0 THEN last_col ELSE _col + Len(str)
                  IN /\ Advance(pos, line, col)
                     /\ ret' = Str(str)
                     /\ _cache' = CacheSet(key, Str(str),
                                           CharBasedParser_mark(pos, line, col))
    /\ ncalls' = ncalls + 1
    /\ CFixed /\ UNCHANGED issued

\* the driver takes a mark: m = parser.mark().  at is the offset it was
\* taken at
CharMark ==
    /\ issued' = issued \cup {[m |-> CharBasedParser_mark(_pos, _line, _col),
                               at |-> _pos]}
    /\ issued' # issued
    /\ CFixed
    /\ UNCHANGED <<_pos, _line, _col, _farthest, seen, _cache, ret, ncalls>>

\* the driver goes back to a mark it holds: parser.reset(m)
CharReset ==
    /\ ncalls < MaxCharOps
    /\ \E h \in issued :
          LET to == CharBasedParser_reset(h.m)
          IN _pos' = to.pos /\ _line' = to.line /\ _col' = to.col
    /\ ncalls' = ncalls + 1
    /\ CFixed /\ UNCHANGED <<_farthest, seen, _cache, ret, issued>>

CNext == any_char \/ match_string \/ CharMark \/ CharReset

SpecChar == CInit /\ [][CNext]_vars

\* the offset reset(mark) goes back to
OffsetOf(m) == CharBasedParser_reset(m).pos

\* C15: the marks of the character parser are ordered by offset, and the
\* farthest mark always equals the greatest offset any advance (any_char or
\* match_string) has reached, whatever resets were made.
C15_Claim ==
    /\ \A x, y \in issued : Mark_lt(x.m, y.m) <=> x.at < y.at
    /\ OffsetOf(_farthest) = seen

\* the line and column any_char leaves after the characters of str, read
\* one by one from line 0, column 0
RECURSIVE LineCol(_)
LineCol(str) ==
    IF str = <<>> THEN <<0, 0>>
    ELSE LET before == LineCol(SubSeq(str, 1, Len(str) - 1))
         IN IF str[Len(str)] = "\n" THEN <<before[1] + 1, 0>>
            ELSE <<before[1], before[2] + 1>>

\* C16: the line and column of the character parser depend only on the
\* text consumed, each "\n" and each "\r\n" counting as one line break:
\* whatever calls of match_string and any_char consumed the prefix, the
\* offset, line and column are those of reading it character by character.
C16_Claim == <<_line, _col>> = LineCol(SubSeq(_text, 1, _pos))

----------------------------------------------------------------------------
(* The token buffer.                                                        *)

\* a token that is neither a comment, a continuation newline nor a blank
\* error token
Significant(tok) ==
    /\ tok.ty \notin {"NL", "COMMENT"}
    /\ ~(tok.ty = "ERRORTOKEN" /\ tok.s = " ")

\* a sequence with every run of NEWLINE tokens cut down to its first
RECURSIVE Collapse(_)
Collapse(toks) ==
    IF Len(toks) <= 1 THEN toks
    ELSE LET front == Collapse(SubSeq(toks, 1, Len(toks) - 1))
             last == toks[Len(toks)]
         IN IF last.ty = "NEWLINE" /\ toks[Len(toks) - 1].ty = "NEWLINE"
            THEN front ELSE Append(front, last)

\* the source tokens the tokenizer has taken from its generator
Generated == SubSeq(source, 1, Len(source) - Len(_tokengen))

\* C17: the token buffer holds no NL or COMMENT token, no blank ERRORTOKEN
\* and no two adjacent NEWLINE tokens; every other token generated so far
\* is in it exactly once, in source order.
C17_BufferFiltered ==
    ~charmode =>
        /\ \A i \in 1..Len(_tokens) : Significant(_tokens[i])
        /\ \A i \in 1..(Len(_tokens) - 1) :
              ~(_tokens[i].ty = "NEWLINE" /\ _tokens[i + 1].ty = "NEWLINE")
        /\ _tokens = Collapse(SelectSeq(Generated, Significant))

\* the whole of  x NEWLINE #c NEWLINE NL " " y NEWLINE ENDMARKER  was read:
\* five of the nine tokens are buffered
C17_Witness ==
    /\ ~charmode /\ _tokengen = <<>>
    /\ Len(source) = 9 /\ Len(_tokens) = 5
    /\ \E i \in 1..(Len(source) - 2) :
          /\ source[i].ty = "NEWLINE" /\ source[i + 1].ty = "COMMENT"
          /\ source[i + 2].ty = "NEWLINE"

----------------------------------------------------------------------------
(* Artificial rules: the names ParserGenerator gives to the rules it makes *)
(* for groups, repetitions and gathers (parser_generator.py 142-180).      *)

\* faulty variant: the counter stays at 1
next_counter_stuck(c) == IF c = 0 THEN 1 ELSE c
\* self.counter += 1
next_counter(c) == c + 1

\* self.todo[name] = rule: a new key goes last, a known key keeps its place
todo_set(td, rule) ==
    IF \E i \in 1..Len(td) : td[i].name = rule.name
    THEN [i \in 1..Len(td) |-> IF td[i].name = rule.name THEN rule ELSE td[i]]
    ELSE Append(td, rule)

\* start: '_tmp_1'-named rule beside start: rejected by validate_items
GUnderscore ==
    <<Rule("start", <<Plain(<<N("NAME")>>)>>),
      Rule("_tmp_1", <<Plain(<<S("'x'")>>)>>)>>

DesugarGrammars == {GLeftRecursive, GNullable, GAdvanced, GUnderscore}
DesugarExterns == {{}, {"ext"}, {"_loop0_2"}}
DesugarNodes == {N("NAME"), S("'x'")}

\* a ParserGenerator whose constructor has returned: the grammar passed
\* validate_items and the analyses
DInit ==
    /\ rules \in DesugarGrammars
    /\ externs \in DesugarExterns
    /\ validate_items(rules, externs, TokenNames) = NoError
    /\ "start" \in RuleNames(rules)
    /\ compute_left_recursives(rules, compute_nullables(rules).inull).flags.error
          = NoError
    /\ gpc = "done" /\ error = NoError
    /\ nullable = compute_nullables(rules).rnull
    /\ item_nullable = compute_nullables(rules).inull
    /\ first_graph = compute_left_recursives(rules, item_nullable).graph
    /\ left_recursive = compute_left_recursives(rules, item_nullable).flags.left_recursive
    /\ leader = compute_left_recursives(rules, item_nullable).flags.leader
    /\ todo = rules /\ counter = 0 /\ extern_decls = SortedSeq(externs)
    /\ ParserIdle

DFixed ==
    UNCHANGED <<rules, externs, gpc, error, nullable, item_nullable, left_recursive,
                leader, first_graph, extern_decls, source, _tokengen, _tokens, _index, _text, _pos,
                charmode, _verbose, _level, _cache, in_recursive_rule, stack, exc,
                ncalls, seen, issued, err, _line, _col, _farthest, twin>>

\* the record kept of a call: the names it made, the first one returned,
\* and the counter before and after
Named(fn, names, after) ==
    /\ ret' = names[1]
    /\ obs' = obs \cup {[fn |-> fn, names |-> names, before |-> counter,
                         after |-> after]}

\* artificial_rule_from_rhs, lines 142-146
artificial_rule_from_rhs ==
    /\ gpc = "done" /\ counter < MaxCounter
    /\ \E node \in DesugarNodes :
          LET c == next_counter(counter)
              name == format("_tmp_", c)
          IN /\ counter' = c
             /\ todo' = todo_set(todo, Rule(name, <<Plain(<<node>>)>>))
             /\ Named("artificial_rule_from_rhs", <<name>>, c)
    /\ DFixed

\* artificial_rule_from_repeat, lines 148-156
artificial_rule_from_repeat ==
    /\ gpc = "done" /\ counter < MaxCounter
    /\ \E node \in DesugarNodes, is_repeat1 \in BOOLEAN :
          LET c == next_counter(counter)
              prefix == IF is_repeat1 THEN "_loop1_" ELSE "_loop0_"
              name == format(prefix, c)
          IN /\ counter' = c
             /\ todo' = todo_set(todo, Rule(name, <<Plain(<<node>>)>>))
             /\ Named("artificial_rule_from_repeat", <<name>>, c)
    /\ DFixed

\* artificial_rule_from_gather, lines 158-180
artificial_rule_from_gather ==
    /\ gpc = "done" /\ counter + 1 < MaxCounter
    /\ \E node \in DesugarNodes :
          LET c1 == next_counter(counter)
              name == format("_gather_", c1)
              c2 == next_counter(c1)
              extra_function_name == format("_loop0_", c2)
              extra_function_alt == Alt(<<S("','"), node>>, "elem")
              alt == Plain(<<node, N(extra_function_name)>>)
          IN /\ counter' = c2
             /\ todo' = todo_set(todo_set(todo, Rule(extra_function_name,
                                                     <<extra_function_alt>>)),
                                 Rule(name, <<alt>>))
             /\ Named("artificial_rule_from_gather", <<name, extra_function_name>>, c2)
    /\ DFixed

DNext ==
    \/ artificial_rule_from_rhs
    \/ artificial_rule_from_repeat
    \/ artificial_rule_from_gather

SpecDesugar == DInit /\ [][DNext]_vars

\* the names the calls made so far have given to artificial rules
Synthesised == UNION {{o.names[i] : i \in 1..Len(o.names)} : o \in obs}

\* C18: after any calls of artificial_rule_from_rhs, _repeat and _gather on
\* a validated grammar the names made are pairwise distinct, each begins
\* with an underscore and none is the name of a user rule or an extern; the
\* counter never goes back: a group or repetition advances it by 1, a gather
\* by 2, and the loop rule of a gather is numbered one above its gather rule.
C18_Names ==
    /\ \A o1, o2 \in obs : \A i \in 1..Len(o1.names), j \in 1..Len(o2.names) :
          o1.names[i] = o2.names[j] => o1 = o2 /\ i = j
    /\ \A name \in Synthesised :
          /\ startswith_underscore(name)
          /\ name \notin RuleNames(rules) \cup externs
          /\ \E i \in 1..Len(todo) : todo[i].name = name
    /\ Len(todo) = Len(rules) + Cardinality(Synthesised)
    /\ \A o \in obs :
          /\ o.after <= counter
          /\ o.after = o.before + (IF o.fn = "artificial_rule_from_gather" THEN 2 ELSE 1)
          /\ o.fn = "artificial_rule_from_gather" =>
                /\ o.names[1] = format("_gather_", o.before + 1)
                /\ o.names[2] = format("_loop0_", o.before + 2)

\* a gather, a group and a repetition were named on a grammar with an
\* extern, and the counter has reached its bound
C18_Witness ==
    /\ gpc = "done" /\ counter = MaxCounter /\ externs = {"ext"}
    /\ \E o \in obs : o.fn = "artificial_rule_from_gather" /\ o.before > 0
    /\ \E o \in obs : o.fn = "artificial_rule_from_rhs"
    /\ \E o \in obs : o.fn = "artificial_rule_from_repeat"

----------------------------------------------------------------------------
(* The subrule validator (validator.py): SubRuleValidator and              *)
(* validate_grammar.  A string is a sequence of characters.                *)

\* Most alternatives of the rule `sum` (validator family).
MaxAlts == 3

\* the characters of the leaf values the family uses
chars(v) ==
    CASE v = "NAME" -> <<"N", "A", "M", "E">>
      [] v = "'+'" -> <<"'", "+", "'">>
      [] v = "sum" -> <<"s", "u", "m">>
      [] v = "$" -> <<"$">>

\* sep.join(strs)
RECURSIVE join(_, _)
join(sep, strs) ==
    IF strs = <<>> THEN <<>>
    ELSE IF Len(strs) = 1 THEN strs[1]
    ELSE strs[1] \o sep \o join(sep, Tail(strs))

\* __str__ of Rhs (line 229), Alt (258, SIMPLE_STR), Leaf (189), Group (452),
\* Opt (375) and Repeat0 (408)
RECURSIVE Rhs_str(_), Alt_str(_), Item_str(_)
Item_str(item) ==
    CASE item.t \in {"NameLeaf", "StringLeaf"} -> chars(Leaf_str(item))
      [] item.t = "Group" -> <<"(">> \o Rhs_str(item.rhs) \o <<")">>
      [] item.t = "Opt" ->
            LET str == Item_str(item.node[1])
            IN IF \E i \in 1..Len(str) : str[i] = " "
               THEN <<"[">> \o str \o <<"]">> ELSE str \o <<"?">>
      [] item.t = "Repeat0" ->
            LET str == Item_str(item.node[1])
            IN IF \E i \in 1..Len(str) : str[i] = " "
               THEN <<"(">> \o str \o <<")", "*">> ELSE str \o <<"*">>
Alt_str(alt) == join(<<" ">>, [j \in 1..Len(alt.items) |-> Item_str(alt.items[j])])
Rhs_str(rhs) == join(<<" ", "|", " ">>, [i \in 1..Len(rhs) |-> Alt_str(rhs[i])])

\* SubRuleValidator.check_intersection, line 26: the test that raises
check_intersection(first_alt, second_alt) ==
    str_startswith(Alt_str(second_alt), Alt_str(first_alt), 0)

\* SubRuleValidator.visit_Rhs, lines 19-23: some pair of alternatives raises
SubRuleValidator_visit_Rhs(rhs) ==
    \E index \in 1..Len(rhs) : \E other \in (index + 1)..Len(rhs) :
        check_intersection(rhs[index], rhs[other])

\* validate_rule, lines 12-15: visit(rule) has no visit_Rule, generic_visit
\* hands the rule's rhs to visit_Rhs, which visits nothing below it;
\* validate_grammar, lines 52-55, over the rules in order
RECURSIVE validate_grammar(_, _)
validate_grammar(rs, i) ==
    IF i > Len(rs) THEN NoError
    ELSE IF SubRuleValidator_visit_Rhs(rs[i].rhs)
    THEN ValidationError("there is an alternative that will never be visited",
                         rs[i].name)
    ELSE validate_grammar(rs, i + 1)

\* alternatives of the family: plain ones, and ones with a group, an
\* optional group or a repeated group around a nested rhs
NestedShadowed == <<Plain(<<N("NAME")>>), Plain(<<N("NAME"), S("'+'")>>)>>
NestedClear == <<Plain(<<S("'+'")>>), Plain(<<N("NAME")>>)>>
ValidatorAlts ==
    {Plain(<<N("NAME")>>), Plain(<<N("NAME"), S("'+'")>>), Plain(<<S("'+'")>>),
     Plain(<<Group(NestedShadowed)>>), Plain(<<Group(NestedClear), N("ENDMARKER")>>),
     Plain(<<Opt(Group(NestedShadowed))>>), Plain(<<Repeat0(Group(NestedShadowed))>>)}

\* start: sum    sum: <one to MaxAlts alternatives>
ValidatorGrammars ==
    {<<Rule("start", <<Plain(<<N("sum")>>)>>), Rule("sum", rhs)>> :
        rhs \in UNION {[1..k -> ValidatorAlts] : k \in 1..MaxAlts}}

VInit ==
    /\ rules \in ValidatorGrammars
    /\ externs = {}
    /\ gpc = "validate_grammar"
    /\ error = NoError
    /\ nullable = {} /\ item_nullable = {}
    /\ left_recursive = {} /\ leader = {}
    /\ first_graph = <<>>
    /\ todo = <<>> /\ counter = 0 /\ extern_decls = SortedSeq(externs)
    /\ ParserIdle

\* validate_grammar(grammar)
ValidateGrammar ==
    /\ gpc = "validate_grammar"
    /\ LET e == validate_grammar(rules, 1)
       IN /\ error' = e
          /\ gpc' = IF e = NoError THEN "done" ELSE "raised"
    /\ UNCHANGED <<rules, externs, nullable, item_nullable, left_recursive, leader,
                   first_graph, todo, counter, extern_decls, pvars>>

SpecValidator == VInit /\ [][ValidateGrammar]_vars

\* every Rhs at or below an item, an alternative, a rhs
RECURSIVE RhsOfItem(_), RhsOfRhs(_)
RhsOfItem(item) ==
    CASE item.t = "Group" -> RhsOfRhs(item.rhs)
      [] item.t \in {"Opt", "Repeat0"} -> RhsOfItem(item.node[1])
      [] OTHER -> {}
RhsOfRhs(rhs) ==
    {rhs} \cup UNION {UNION {RhsOfItem(rhs[i].items[j]) : j \in 1..Len(rhs[i].items)} :
                         i \in 1..Len(rhs)}

\* C19: validate_grammar raises ValidationError exactly when, in some Rhs of
\* the grammar, at the top of a rule or nested in a group, an optional or a
\* repetition, the string form of an earlier alternative is a prefix of the
\* string form of a later one; otherwise it passes.
C19_Claim ==
    gpc # "validate_grammar" =>
        (error # NoError <=>
            \E i \in 1..Len(rules) : \E rhs \in RhsOfRhs(rules[i].rhs) :
                SubRuleValidator_visit_Rhs(rhs))

----------------------------------------------------------------------------
(* The Grammar constructor (grammar.py 65-90).                              *)

\* Most rules and most extern declarations handed to Grammar(...).
MaxDecls == 3

\* faulty variant: only the rule names are checked
names_checked_rules(rule_names, extern_names) == rule_names
\* Grammar.__init__, lines 80-83: itertools.chain of the rule names and the
\* extern names
names_checked(rule_names, extern_names) == rule_names \o extern_names

\* _check_duplicate_names, lines 65-71, with the names seen so far
RECURSIVE _check_duplicate_names(_, _)
_check_duplicate_names(names, seen_names) ==
    IF names = <<>> THEN NoError
    ELSE IF Head(names) \in seen_names
    THEN ValidationError("Duplicate name", Head(names))
    ELSE _check_duplicate_names(Tail(names), seen_names \cup {Head(names)})

\* the keys of {name: ... for name in names}: a name repeated keeps its
\* first place
RECURSIVE dict_keys(_)
dict_keys(names) ==
    IF names = <<>> THEN <<>>
    ELSE LET front == dict_keys(SubSeq(names, 1, Len(names) - 1))
             last == names[Len(names)]
         IN IF \E i \in 1..Len(front) : front[i] = last THEN front
            ELSE Append(front, last)

NamesOf(rs) == [i \in 1..Len(rs) |-> rs[i].name]

\* Grammar.items, line 87: self.rules | self.extern_decls, its keys in order
Grammar_items(rs, exts) == dict_keys(NamesOf(rs) \o exts)

ConstructNames == {"start", "a", "ext"}
ConstructRule(name) == Rule(name, <<Plain(<<N("NAME")>>)>>)

\* the arguments of Grammar(rules, extern_decls, metas)
KInit ==
    /\ rules \in UNION {[1..k -> {ConstructRule(n) : n \in ConstructNames}] :
                           k \in 1..MaxDecls}
    /\ extern_decls \in UNION {[1..k -> ConstructNames] : k \in 0..(MaxDecls - 1)}
    /\ externs = {}
    /\ gpc = "Grammar"
    /\ error = NoError
    /\ nullable = {} /\ item_nullable = {}
    /\ left_recursive = {} /\ leader = {}
    /\ first_graph = <<>>
    /\ todo = <<>> /\ counter = 0
    /\ ParserIdle

\* Grammar.__init__, lines 77-87
Grammar_init ==
    /\ gpc = "Grammar"
    /\ LET e == _check_duplicate_names(names_checked(NamesOf(rules), extern_decls), {})
       IN /\ error' = e
          /\ gpc' = IF e = NoError THEN "done" ELSE "raised"
          /\ rules' = IF e = NoError
                      THEN [i \in 1..Len(dict_keys(NamesOf(rules))) |->
                               ConstructRule(dict_keys(NamesOf(rules))[i])]
                      ELSE rules
          /\ externs' = IF e = NoError
                        THEN {extern_decls[i] : i \in 1..Len(extern_decls)}
                        ELSE externs
    /\ UNCHANGED <<nullable, item_nullable, left_recursive, leader, first_graph, todo,
                   counter, extern_decls, pvars>>

\* the Grammar object is used: its items are read
Grammar_getitem ==
    /\ gpc = "done"
    /\ \E i \in 1..Len(Grammar_items(rules, extern_decls)) :
          ret' = Grammar_items(rules, extern_decls)[i]
    /\ UNCHANGED <<gvars, twin, source, _tokengen, _tokens, _index, _text, _pos, charmode,
                   _verbose, _level, _cache, in_recursive_rule, stack, exc, obs,
                   ncalls, seen, issued, err, _line, _col, _farthest, twin>>

KNext == Grammar_init \/ Grammar_getitem

SpecConstruct == KInit /\ [][KNext]_vars

\* some name is declared twice among the rules and the externs
DeclaredTwice(rs, exts) ==
    LET names == NamesOf(rs) \o exts
    IN \E i, j \in 1..Len(names) : i < j /\ names[i] = names[j]

\* C20: Grammar(rules, extern_decls, metas) fails with ValidationError when
\* a name is declared twice, be it by two rules, by two externs or by a rule
\* and an extern; so the rule names and the extern names of a Grammar are
\* disjoint and items holds exactly one entry per declared name.
C20_NoDuplicates ==
    /\ gpc = "raised" =>
          /\ error[1] = "ValidationError"
          /\ DeclaredTwice(rules, extern_decls)
    /\ gpc = "done" =>
          /\ ~DeclaredTwice(rules, extern_decls)
          /\ RuleNames(rules) \cap externs = {}
          /\ LET items == Grammar_items(rules, extern_decls)
             IN /\ Len(items) = Len(rules) + Len(extern_decls)
                /\ \A n \in RuleNames(rules) \cup externs :
                      Cardinality({i \in 1..Len(items) : items[i] = n}) = 1

\* a rule and an extern share the name `a`, no two rules and no two externs
\* do: the constructor raised
C20_Witness ==
    /\ gpc = "raised" /\ error = ValidationError("Duplicate name", "a")
    /\ ~DeclaredTwice(rules, <<>>)
    /\ ~DeclaredTwice(<<>>, extern_decls)
    /\ "a" \in RuleNames(rules)

----------------------------------------------------------------------------
(* The Tokenizer on its own (tokenizer.py 110-181): a driver that calls     *)
(* getnext, peek, mark, reset and diagnose in any order.  obs keeps one     *)
(* record per call: the call, its argument, the index before and after it,  *)
(* the token it returned and the exception it ended in.                     *)

\* Most calls the driver makes on one tokenizer.
MaxTokOps == 4

TokenSources ==
    {Layout(<<NAME("x"), TokenInfo("NEWLINE", ""), TokenInfo("COMMENT", "# c"),
              TokenInfo("NEWLINE", ""), NAME("y")>> \o EndOfLine),
     Layout(<<NUMBER("1"), OP("+")>> \o EndOfLine)}

\* Tokenizer(tokengen), lines 85-87
TInit ==
    /\ source \in TokenSources
    /\ _tokengen = source /\ _tokens = <<>> /\ _index = 0
    /\ rules = <<>> /\ externs = {} /\ extern_decls = <<>>
    /\ gpc = "done" /\ error = NoError
    /\ nullable = {} /\ item_nullable = {}
    /\ left_recursive = {} /\ leader = {}
    /\ first_graph = <<>>
    /\ todo = <<>> /\ counter = 0
    /\ _text = <<>> /\ _pos = 0 /\ charmode = FALSE
    /\ _verbose = FALSE /\ _level = 0 /\ _cache = <<>>
    /\ in_recursive_rule = 0
    /\ stack = <<>> /\ ret = None /\ exc = "" /\ obs = {} /\ ncalls = 0
    /\ seen = -1 /\ issued = {} /\ err = NoSyntaxError
    /\ _line = 0 /\ _col = 0 /\ _farthest = <<>>
    /\ twin = NoTwin

TFixed ==
    UNCHANGED <<gvars, twin, source, _text, _pos, charmode, _verbose, _level, _cache,
                in_recursive_rule, stack, err, _line, _col, _farthest>>

\* the record of a call
Called(op, arg, tok, end, raised) ==
    [op |-> op, arg |-> arg, at |-> _index, tok |-> tok, end |-> end,
     raised |-> raised, issued |-> arg \in issued]

\* faulty variant: getnext leaves the index where it is
getnext_index_stays(index) == index
\* Tokenizer.getnext, line 114: self._index += 1
getnext_index(index) == index + 1

\* the tokenizer after getnext(): the token returned, the index, the
\* exception
getnext(tokens, tokengen, index) ==
    LET p == peek_fill(tokens, tokengen, index)
    IN [p EXCEPT !.at = IF p.raised = "" THEN getnext_index(index) ELSE index]
       @@ [tok |-> IF p.raised = "" THEN p.tokens[index + 1] ELSE None]

\* tok = tokenizer.getnext()
Tokenizer_getnext ==
    /\ ncalls < MaxTokOps
    /\ LET g == getnext(_tokens, _tokengen, _index)
       IN /\ _tokens' = g.tokens /\ _tokengen' = g.tokengen
          /\ _index' = g.at
          /\ ret' = g.tok /\ exc' = g.raised
          /\ seen' = IF g.raised = "" /\ _index > seen THEN _index ELSE seen
          /\ obs' = obs \cup {Called("getnext", -1, g.tok, g.at, g.raised)}
    /\ ncalls' = ncalls + 1
    /\ TFixed /\ UNCHANGED issued

\* tok = tokenizer.peek()
Tokenizer_peek ==
    /\ ncalls < MaxTokOps
    /\ LET p == peek_fill(_tokens, _tokengen, _index)
           tok == IF p.raised = "" THEN p.tokens[_index + 1] ELSE None
       IN /\ Tok(p)
          /\ ret' = tok /\ exc' = p.raised
          /\ obs' = obs \cup {Called("peek", -1, tok, _index, p.raised)}
    /\ ncalls' = ncalls + 1
    /\ TFixed /\ UNCHANGED <<_index, issued>>

\* m = tokenizer.mark()
Tokenizer_mark ==
    /\ ncalls < MaxTokOps
    /\ issued' = issued \cup {_index}
    /\ exc' = ""
    /\ obs' = obs \cup {Called("mark", -1, None, _index, "")}
    /\ ncalls' = ncalls + 1
    /\ TFixed /\ NoTok /\ UNCHANGED <<_index, ret>>

\* tokenizer.reset(m), lines 174-181
Tokenizer_reset ==
    /\ ncalls < MaxTokOps
    /\ \E m \in -1..(Len(_tokens) + 1) :
          LET ok == reset_accepts(m, _index, _tokens)
              end == IF ok THEN reset(m, _index) ELSE _index
          IN /\ _index' = end
             /\ exc' = IF ok THEN "" ELSE "AssertionError"
             /\ obs' = obs \cup {Called("reset", m, None, end, exc')}
    /\ ncalls' = ncalls + 1
    /\ TFixed /\ NoTok /\ UNCHANGED <<ret, issued>>

\* tok = tokenizer.diagnose(), lines 138-141
Tokenizer_diagnose ==
    /\ ncalls < MaxTokOps
    /\ LET g == IF _tokens = <<>> THEN getnext(_tokens, _tokengen, _index)
                ELSE [NoPeek EXCEPT !.at = _index] @@ [tok |-> None]
           tok == IF g.raised = "" THEN diagnose_token(g.tokens, g.at) ELSE None
       IN /\ _tokens' = g.tokens /\ _tokengen' = g.tokengen
          /\ _index' = g.at
          /\ ret' = tok /\ exc' = g.raised
          /\ seen' = IF _tokens = <<>> /\ g.raised = "" /\ _index > seen
                     THEN _index ELSE seen
          /\ obs' = obs \cup {Called("diagnose", -1, tok, g.at, g.raised)}
    /\ ncalls' = ncalls + 1
    /\ TFixed /\ UNCHANGED issued

TNext ==
    \/ Tokenizer_getnext \/ Tokenizer_peek \/ Tokenizer_mark
    \/ Tokenizer_reset \/ Tokenizer_diagnose

SpecTokenizer == TInit /\ [][TNext]_vars

\* what the calls made so far show of the token stream
Replayable ==
    /\ 0 <= _index /\ _index <= Len(_tokens)
    /\ \A o \in obs :
          /\ o.op = "peek" => o.end = o.at
          /\ (o.op = "getnext" /\ o.raised = "") => o.end = o.at + 1
          /\ (o.op = "reset" /\ o.issued) => (o.raised = "" /\ o.end = o.arg)
    /\ \A o1, o2 \in obs :
          (/\ o1.op \in {"peek", "getnext"} /\ o1.raised = ""
           /\ o2.op \in {"peek", "getnext"} /\ o2.raised = ""
           /\ o1.at = o2.at) => o1.tok = o2.tok

\* C25: peek() never moves the position, getnext() returns the token peek()
\* would return and moves the position by one, reset(m) to an issued mark m
\* succeeds and puts the position at m, so that the getnext() calls made from
\* m return the tokens they returned before; the buffer only grows at its
\* end and the position lies between 0 and the length of the buffer.
C25_Replayable ==
    [][/\ Replayable'
       /\ Len(_tokens') >= Len(_tokens)
       /\ SubSeq(_tokens', 1, Len(_tokens)) = _tokens]_vars

\* a token was read, the tokenizer was reset to the mark taken before it and
\* the token was read again
C25_Witness ==
    /\ \E o \in obs : o.op = "mark" /\ o.at = 0
    /\ \E o \in obs : o.op = "reset" /\ o.issued /\ o.arg = 0 /\ o.at = 1
    /\ \E o \in obs : o.op = "getnext" /\ o.at = 0 /\ o.tok = ret
    /\ ncalls = 4 /\ _index = 1 /\ Len(_tokens) = 1

\* C26 (as claimed): diagnose() leaves the position of the tokenizer where
\* it was, also when it is called before any token has been read.
C26_Claim ==
    \A o \in obs : o.op = "diagnose" => o.end = o.at

----------------------------------------------------------------------------
(* Two parsers on the same input: one without a verbose stream, then one    *)
(* with it.  The driver makes the same calls on both; `twin.script` is the   *)
(* list of these calls and `twin.first` what the first parser ended with.    *)

\* the inputs the two parsers are built on (from_text, verbose_stream given
\* or None: parser_v2.py, lines 273-279 and 293)
VerboseConfigs ==
    {TokenConfig(GAnyToken, <<NAME("x")>>),
     TokenConfig(GNasty, <<NAME("x")>>),
     TokenConfig(GLookahead, <<NAME("x")>>)}

\* a call of the driver: a rule method, or parser.reset(m)
DriverCalls(g) ==
    {[op |-> "invoke", r |-> r, m |-> 0] : r \in RuleNames(g)}
        \cup {[op |-> "reset", r |-> "", m |-> m] : m \in 0..1}

Scripts(g) == [1..MaxCalls -> DriverCalls(g)]

\* what a parser shows of itself when the driver has made its calls: the
\* results of the memoize and memoize_left_rec calls, the position it ended
\* at, the exception that reached the driver, and the cache
Outcome ==
    [results |-> {[fn |-> o.fn, name |-> o.name, arg |-> o.arg, mark |-> o.mark,
                   res |-> o.res, end |-> o.end] :
                     o \in {x \in obs : x.fn \in {"memoize", "memoize_left_rec"}}},
     position |-> _index,
     cache |-> _cache]

NoOutcome == [results |-> {}, position |-> 0, cache |-> <<>>]

TwinInit ==
    /\ \E c \in VerboseConfigs :
          /\ rules = c.grammar
          /\ source = c.source /\ _tokengen = c.source
          /\ _text = c.text /\ charmode = c.charmode
          /\ \E sc \in Scripts(c.grammar) :
                twin = [phase |-> 1, script |-> sc, first |-> NoOutcome]
    /\ externs = {} /\ gpc = "done" /\ error = NoError
    /\ todo = rules /\ counter = 0 /\ extern_decls = SortedSeq(externs)
    /\ nullable = compute_nullables(rules).rnull
    /\ item_nullable = compute_nullables(rules).inull
    /\ first_graph = compute_left_recursives(rules, item_nullable).graph
    /\ left_recursive = compute_left_recursives(rules, item_nullable).flags.left_recursive
    /\ leader = compute_left_recursives(rules, item_nullable).flags.leader
    /\ _tokens = <<>> /\ _index = 0 /\ _pos = 0
    /\ _verbose = FALSE
    /\ _level = 0 /\ _cache = <<>> /\ in_recursive_rule = 0
    /\ stack = <<>> /\ ret = None /\ exc = "" /\ obs = {} /\ ncalls = 0
    /\ seen = -1 /\ issued = {} /\ err = NoSyntaxError
    /\ _line = 0 /\ _col = 0 /\ _farthest = <<>>

ScriptDone == stack = <<>> /\ ncalls = Len(twin.script)

\* the driver's next call is a rule method
FollowInvoke ==
    /\ twin.phase \in {1, 2} /\ ncalls < Len(twin.script)
    /\ twin.script[ncalls + 1].op = "invoke"
    /\ Invoke
    /\ stack' = <<MethodFrame(twin.script[ncalls + 1].r, "")>>

\* the driver's next call is parser.reset(m)
FollowReset ==
    /\ twin.phase \in {1, 2} /\ ncalls < Len(twin.script)
    /\ twin.script[ncalls + 1].op = "reset"
    /\ Reset
    /\ IF reset_accepts(twin.script[ncalls + 1].m, _index, _tokens)
       THEN _index' = twin.script[ncalls + 1].m /\ exc' = ""
       ELSE exc' = "AssertionError"

\* the second parser is built on the same text, with a verbose stream
\* (DefaultParser.__init__, lines 281-295: self._verbose = True)
BuildVerbose ==
    /\ twin.phase = 1 /\ ScriptDone
    /\ twin' = [twin EXCEPT !.phase = 2, !.first = Outcome]
    /\ _verbose' = TRUE
    /\ _tokengen' = source /\ _tokens' = <<>> /\ _index' = 0
    /\ _level' = 0 /\ _cache' = <<>> /\ in_recursive_rule' = 0
    /\ stack' = <<>> /\ ret' = None /\ exc' = "" /\ obs' = {} /\ ncalls' = 0
    /\ seen' = -1 /\ issued' = {} /\ err' = NoSyntaxError
    /\ UNCHANGED <<gvars, source, _text, _pos, charmode, _line, _col, _farthest>>

TwinNext ==
    \/ FollowInvoke \/ FollowReset \/ BuildVerbose
    \/ MemoizeEnter \/ MemoizeReturn
    \/ LeftRecEnter \/ LeftRecReturn
    \/ LoggerEnter \/ LoggerReturn
    \/ Expect
    \/ RuleStep \/ RuleResume
    \/ LookaheadEnter \/ LookaheadReturn
    \/ Unwind

SpecVerbose == TwinInit /\ [][TwinNext]_vars

\* C30: a parser with a verbose stream and a parser without one, given the
\* same input and the same calls, return the same result from every memoize
\* and memoize_left_rec call, end at the same position and hold the same
\* cache contents
C30_Claim ==
    (twin.phase = 2 /\ ScriptDone) => Outcome = twin.first

====
